---- MODULE Spec2Model ----
(***************************************************************************)
(* DynmapSpider: the ingestion cycle of SIMMCSpider (spider.py), the       *)
(* tables and models of database.py and the polity deriver of parser.py.   *)
(*                                                                         *)
(* The four tables are sets of rows.  A cycle (process_and_store_data) is  *)
(* followed through its phases: fetch, the three upsert loops, the         *)
(* statistics pass and the inactivity check.  Spec runs on a store whose   *)
(* statements always succeed; SpecFault lets a statement raise where the   *)
(* code catches the exception.                                             *)
(***************************************************************************)
EXTENDS Integers, Sequences, FiniteSets, TLC

VARIABLES
    players,        \* table players
    cities,         \* table cities
    countries,      \* table countries
    system_config,  \* table system_config
    clock,          \* the last value read from time.time()
    pc,             \* position of the process: off, ready (initialised), idle
                    \* (between cycles), or the phase of the cycle it is in
    current_time,   \* process_and_store_data: current_time
    batch,          \* process_and_store_data: players, cities, countries
    faults,         \* per loop, the indices of the records whose upsert raised
    stats_done,     \* how many polities the statistics pass of this cycle updated
    report,         \* what check_inactive_players handed to the reporting sink
    lastResult,     \* what the last cycle returned
    cyclesRun,      \* cycles started so far
    raised,         \* store statements that have raised so far
    prev,           \* the cycle before this one: its result, payload and derived values
    stop,           \* the statement KeyboardInterrupt ended run_continuous at
    country_info,   \* get_country_info: the name last asked for and what it returned
    desc_html,      \* parse_city_description: the description being parsed
    result,         \* parse_city_description: result
    ppc,            \* parse_city_description: the statement it is at
    li_done,        \* parse_city_description: the li elements its loop has seen
    json_data,      \* parse_city_data: the payload
    cities_out,     \* parse_city_data: cities
    epos,           \* parse_city_data: the merged entries its loop has seen
    epc             \* parse_city_data: the statement it is at

cycleVars == <<players, cities, countries, system_config, clock, pc, current_time,
               batch, faults, stats_done, report, lastResult, cyclesRun, raised, prev,
               stop, country_info>>

parserVars == <<desc_html, result, ppc, li_done>>

extractorVars == <<json_data, cities_out, epos, epc>>

vars == <<cycleVars, parserVars, extractorVars>>

db == <<players, cities, countries, system_config>>

-----------------------------------------------------------------------------
(* Bounds of the model *)

MaxCycles == 2

MaxBatch == 2

MaxTicks == 2

MaxFaults == 1

-----------------------------------------------------------------------------
(* Sequence helpers *)

Range(s) == {s[i] : i \in DOMAIN s}

RECURSIVE SumSeq(_)
SumSeq(s) == IF s = <<>> THEN 0 ELSE Head(s) + SumSeq(Tail(s))

\* The sequences over S of length 1..n without repetition
Arrangements(S, n) ==
    {s \in UNION {[1..k -> S] : k \in 1..n} :
        \A i, j \in DOMAIN s : i # j => s[i] # s[j]}

\* The entries of s at the indices in I, from index i on, in the order of s
RECURSIVE Pick(_, _, _)
Pick(s, i, I) ==
    IF i > Len(s) THEN <<>>
    ELSE (IF i \in I THEN <<s[i]>> ELSE <<>>) \o Pick(s, i + 1, I)

\* Every ordering of the finite set S
Orderings(S) ==
    {s \in [1..Cardinality(S) -> S] : \A i, j \in DOMAIN s : i # j => s[i] # s[j]}

-----------------------------------------------------------------------------
(* Conversions *)

\* json.dumps of a list of strings: the text as a sequence of tokens
RECURSIVE JoinTokens(_)
JoinTokens(l) ==
    IF l = <<>> THEN <<>>
    ELSE IF Len(l) = 1 THEN <<l[1]>>
    ELSE <<l[1], ",">> \o JoinTokens(Tail(l))

json_dumps(l) == <<"[">> \o JoinTokens(l) \o <<"]">>

\* json.loads of such a text
json_loads(s) ==
    LET inner == SubSeq(s, 2, Len(s) - 1)
    IN  [i \in 1..((Len(inner) + 1) \div 2) |-> inner[2 * i - 1]]

\* str(n) for n >= 0: the decimal digits
RECURSIVE str(_)
str(n) == IF n < 10 THEN <<n>> ELSE str(n \div 10) \o <<n % 10>>

\* int(s) for a string of decimal digits
RECURSIVE int(_)
int(s) == IF Len(s) = 1 THEN s[1] ELSE 10 * int(SubSeq(s, 1, Len(s) - 1)) + s[Len(s)]

\* str.strip(): " " stands for a text of white space only
strip(s) == IF s = " " THEN "" ELSE s

-----------------------------------------------------------------------------
(* Time *)

Day == 24 * 60 * 60

\* check_inactive_players: the two thresholds, in days
ThresholdLow == 41

ThresholdHigh == 42

\* The instants time.time() is read at: multiples of the lower threshold
Times == {k * (ThresholdLow * Day) : k \in 0..MaxTicks}

-----------------------------------------------------------------------------
(* What the game server can send: accounts and parsed settlement records *)

Player(account, health) ==
    [account |-> account, name |-> account, world |-> "world", x |-> 0, y |-> 64,
     z |-> 0, health |-> health, armor |-> 0, sort |-> 0, type |-> "player"]

\* fetch_player_data returns some of these records, in this order
PlayerCatalogue == <<Player("x", 20), Player("w", 20)>>

City(city_name, city_level, city_owner, city_block, city_players, city_country, city_country_territory) ==
    [label |-> city_name, x |-> 0, y |-> 64, z |-> 0,
     city_name |-> city_name, city_level |-> city_level, city_owner |-> city_owner,
     city_balance |-> "$0", city_block |-> city_block, city_players |-> city_players,
     city_country |-> city_country,
     city_country_level |-> IF city_country = "" THEN "" ELSE city_level,
     city_country_capital |-> IF city_country = "" THEN "" ELSE city_name,
     city_country_territory |-> city_country_territory]

\* fetch_city_data can return any of these records
CityCatalogue ==
    { City("A", "3", "x", 50, <<"x", "y">>, "P", <<"A", "GHOST">>),
      City("B", "2", "y", 20, <<"y", "z">>, "P", <<"A", "B">>),
      City("A", "1", "",  30, <<>>,         "",  <<>>),
      City("B", "2", "x", 20, <<"z">>,      "Q", <<"B", "B">>) }

\* The account lists a fetch can return: the accounts online, in the server's order
PlayerBatches ==
    {Pick(PlayerCatalogue, 1, I) :
        I \in {J \in SUBSET DOMAIN PlayerCatalogue : Cardinality(J) <= MaxBatch}}

\* The settlement lists a fetch can return: at most one record per settlement
CityBatches ==
    {<<>>} \cup {s \in Arrangements(CityCatalogue, MaxBatch) :
                    \A i, j \in DOMAIN s : i # j => s[i].city_name # s[j].city_name}

-----------------------------------------------------------------------------
(* parser.py: the polity deriver *)

IndexOf(acc, country_name) ==
    CHOOSE k \in DOMAIN acc : acc[k].country_name = country_name

\* A turn that lets every settlement of a polity overwrite what the first one gave
ExtractCity_overwriting(acc, city, cities_data) ==
    LET country_name == city.city_country
    IN  IF country_name # "" /\ strip(country_name) # ""
        THEN LET record == [country_name |-> country_name,
                            country_level |-> city.city_country_level,
                            country_capital |-> city.city_country_capital,
                            country_territory |-> city.city_country_territory,
                            territory_count |-> 0,
                            player_count |-> 0,
                            total_blocks |-> 0]
             IN  IF \A k \in DOMAIN acc : acc[k].country_name # country_name
                 THEN Append(acc, record)
                 ELSE [acc EXCEPT ![IndexOf(acc, country_name)] = record]
        ELSE acc

\* One turn of the loop of extract_country_data, for city, with countries = acc
ExtractCity(acc, city, cities_data) ==
    LET country_name == city.city_country
    IN  IF country_name # "" /\ strip(country_name) # ""
        THEN LET seeded ==
                     IF \A k \in DOMAIN acc : acc[k].country_name # country_name
                     THEN Append(acc,
                            [country_name |-> country_name,
                             country_level |-> city.city_country_level,
                             country_capital |-> city.city_country_capital,
                             country_territory |-> city.city_country_territory,
                             territory_count |-> 0,
                             player_count |-> 0,
                             total_blocks |-> 0])
                     ELSE acc
                 k == IndexOf(seeded, country_name)
                 existing_players ==
                     UNION {Range(c.city_players) :
                              c \in {d \in Range(cities_data) : d.city_country = country_name}}
                 blocks == IF city.city_block # 0
                           THEN seeded[k].total_blocks + city.city_block
                           ELSE seeded[k].total_blocks
                 count == IF city.city_players # <<>>
                          THEN Cardinality(existing_players)
                          ELSE seeded[k].player_count
             IN  [seeded EXCEPT ![k].total_blocks = blocks, ![k].player_count = count]
        ELSE acc

RECURSIVE ExtractFrom(_, _, _)
ExtractFrom(acc, i, cities_data) ==
    IF i > Len(cities_data) THEN acc
    ELSE ExtractFrom(ExtractCity(acc, cities_data[i], cities_data), i + 1, cities_data)

extract_country_data(cities_data) == ExtractFrom(<<>>, 1, cities_data)

-----------------------------------------------------------------------------
(* The system marker *)

FirstRunKey == "first_run_timestamp"

\* The value under config_key as a set: empty for None
get_system_config(table, config_key) ==
    {r.config_value : r \in {q \in table : q.config_key = config_key}}

\* The table after set_system_config(config_key, config_value) at time t
set_system_config(table, config_key, config_value, t) ==
    LET hit == {r \in table : r.config_key = config_key}
    IN  IF hit # {}
        THEN (table \ hit) \cup
             {[r EXCEPT !.config_value = config_value, !.updated_time = t] : r \in hit}
        ELSE table \cup {[config_key |-> config_key, config_value |-> config_value,
                          created_time |-> t, updated_time |-> t]}

\* A _record_first_run_timestamp that writes without looking for the marker first
record_first_run_timestamp_always(table, t, ok) ==
    IF ok THEN set_system_config(table, FirstRunKey, str(t), t) ELSE table

\* The table after _record_first_run_timestamp at time t; ok: the store took the write
record_first_run_timestamp(table, t, ok) ==
    IF get_system_config(table, FirstRunKey) = {}
    THEN IF ok THEN set_system_config(table, FirstRunKey, str(t), t) ELSE table
    ELSE table

-----------------------------------------------------------------------------
(* database.py: the upserts *)

\* The table after insert_or_update_player(player_data, update_time)
insert_or_update_player(table, player_data, update_time) ==
    LET existing == {r \in table : r.account = player_data.account}
        row == [account |-> player_data.account, name |-> player_data.name,
                world |-> player_data.world, x |-> player_data.x, y |-> player_data.y,
                z |-> player_data.z, health |-> player_data.health,
                armor |-> player_data.armor, sort |-> player_data.sort,
                type |-> player_data.type, update_time |-> update_time]
    IN  IF existing # {}
        THEN (table \ existing) \cup
             {[r EXCEPT !.name = row.name, !.world = row.world, !.x = row.x, !.y = row.y,
                        !.z = row.z, !.health = row.health, !.armor = row.armor,
                        !.sort = row.sort, !.type = row.type,
                        !.update_time = update_time] : r \in existing}
        ELSE table \cup {row}

\* An upsert that leaves a settlement it finds as it is
insert_or_update_city_first_wins(table, city_data, update_time) ==
    IF \E r \in table : r.city_name = city_data.city_name
    THEN table
    ELSE table \cup
         {[city_name |-> city_data.city_name, label |-> city_data.label,
           x |-> city_data.x, y |-> city_data.y, z |-> city_data.z,
           city_level |-> city_data.city_level, city_owner |-> city_data.city_owner,
           city_balance |-> city_data.city_balance,
           city_block |-> city_data.city_block,
           city_players |-> json_dumps(city_data.city_players),
           city_country |-> city_data.city_country, update_time |-> update_time]}

\* An upsert whose UPDATE keeps the stored owner when the record has none
insert_or_update_city_keep_owner(table, city_data, update_time) ==
    LET existing == {r \in table : r.city_name = city_data.city_name}
    IN  IF existing # {}
        THEN (table \ existing) \cup
             {[r EXCEPT !.label = city_data.label,
                        !.city_level = city_data.city_level,
                        !.city_owner = IF city_data.city_owner = "" THEN r.city_owner
                                       ELSE city_data.city_owner,
                        !.city_balance = city_data.city_balance,
                        !.city_block = city_data.city_block,
                        !.city_players = json_dumps(city_data.city_players),
                        !.city_country = city_data.city_country,
                        !.update_time = update_time] : r \in existing}
        ELSE table \cup
             {[city_name |-> city_data.city_name, label |-> city_data.label,
               x |-> city_data.x, y |-> city_data.y, z |-> city_data.z,
               city_level |-> city_data.city_level, city_owner |-> city_data.city_owner,
               city_balance |-> city_data.city_balance,
               city_block |-> city_data.city_block,
               city_players |-> json_dumps(city_data.city_players),
               city_country |-> city_data.city_country, update_time |-> update_time]}

\* An upsert whose UPDATE adds the new area to the stored one
insert_or_update_city_adding(table, city_data, update_time) ==
    LET existing == {r \in table : r.city_name = city_data.city_name}
    IN  IF existing # {}
        THEN (table \ existing) \cup
             {[r EXCEPT !.label = city_data.label,
                        !.city_level = city_data.city_level,
                        !.city_owner = city_data.city_owner,
                        !.city_balance = city_data.city_balance,
                        !.city_block = r.city_block + city_data.city_block,
                        !.city_players = json_dumps(city_data.city_players),
                        !.city_country = city_data.city_country,
                        !.update_time = update_time] : r \in existing}
        ELSE table \cup
             {[city_name |-> city_data.city_name, label |-> city_data.label,
               x |-> city_data.x, y |-> city_data.y, z |-> city_data.z,
               city_level |-> city_data.city_level, city_owner |-> city_data.city_owner,
               city_balance |-> city_data.city_balance,
               city_block |-> city_data.city_block,
               city_players |-> json_dumps(city_data.city_players),
               city_country |-> city_data.city_country, update_time |-> update_time]}

\* The table after insert_or_update_city(city_data, update_time)
insert_or_update_city(table, city_data, update_time) ==
    LET existing == {r \in table : r.city_name = city_data.city_name}
        city_players_json == json_dumps(city_data.city_players)
        row == [city_name |-> city_data.city_name, label |-> city_data.label,
                x |-> city_data.x, y |-> city_data.y, z |-> city_data.z,
                city_level |-> city_data.city_level, city_owner |-> city_data.city_owner,
                city_balance |-> city_data.city_balance,
                city_block |-> city_data.city_block, city_players |-> city_players_json,
                city_country |-> city_data.city_country, update_time |-> update_time]
    IN  IF existing # {}
        THEN (table \ existing) \cup
             {[r EXCEPT !.label = row.label, !.x = row.x, !.y = row.y, !.z = row.z,
                        !.city_level = row.city_level, !.city_owner = row.city_owner,
                        !.city_balance = row.city_balance, !.city_block = row.city_block,
                        !.city_players = city_players_json,
                        !.city_country = row.city_country,
                        !.update_time = update_time] : r \in existing}
        ELSE table \cup {row}

\* The table after insert_or_update_country(country_data, update_time)
insert_or_update_country(table, country_data, update_time) ==
    LET existing == {r \in table : r.country_name = country_data.country_name}
        territory_json == json_dumps(country_data.country_territory)
        row == [country_name |-> country_data.country_name,
                country_level |-> country_data.country_level,
                country_capital |-> country_data.country_capital,
                country_territory |-> territory_json,
                territory_count |-> country_data.territory_count,
                player_count |-> country_data.player_count,
                total_blocks |-> country_data.total_blocks,
                update_time |-> update_time]
    IN  IF existing # {}
        THEN (table \ existing) \cup
             {[r EXCEPT !.country_level = row.country_level,
                        !.country_capital = row.country_capital,
                        !.country_territory = territory_json,
                        !.territory_count = row.territory_count,
                        !.player_count = row.player_count,
                        !.total_blocks = row.total_blocks,
                        !.update_time = update_time] : r \in existing}
        ELSE table \cup {row}

-----------------------------------------------------------------------------
(* database.py: the statistics pass *)

\* A pass that adds to the aggregates already stored instead of recomputing them
country_statistics_incremental(country, cityTable) ==
    LET territory_list == json_loads(country.country_territory)
        city(territory) == {c \in cityTable : c.city_name = territory}
        blocks(territory) ==
            IF city(territory) # {} THEN (CHOOSE c \in city(territory) : TRUE).city_block
            ELSE 0
        city_players(territory) ==
            IF city(territory) # {}
            THEN Range(json_loads((CHOOSE c \in city(territory) : TRUE).city_players))
            ELSE {}
    IN  [territory_count |-> Len(territory_list),
         total_blocks |-> country.total_blocks +
                          SumSeq([i \in DOMAIN territory_list |-> blocks(territory_list[i])]),
         total_players |-> UNION {city_players(territory_list[i]) : i \in DOMAIN territory_list}]

\* A pass that counts a member once per settlement it lives in
country_statistics_per_city(country, cityTable) ==
    LET territory_list == json_loads(country.country_territory)
        city(territory) == {c \in cityTable : c.city_name = territory}
        blocks(territory) ==
            IF city(territory) # {} THEN (CHOOSE c \in city(territory) : TRUE).city_block
            ELSE 0
        city_players(territory) ==
            IF city(territory) # {}
            THEN {<<territory, m>> :
                    m \in Range(json_loads((CHOOSE c \in city(territory) : TRUE).city_players))}
            ELSE {}
    IN  [territory_count |-> Len(territory_list),
         total_blocks |-> SumSeq([i \in DOMAIN territory_list |-> blocks(territory_list[i])]),
         total_players |-> UNION {city_players(territory_list[i]) : i \in DOMAIN territory_list}]

\* A pass that gives up on a polity's area at the first territory without a row
country_statistics_stop_at_missing(country, cityTable) ==
    LET territory_list == json_loads(country.country_territory)
        city(territory) == {c \in cityTable : c.city_name = territory}
        reached(i) == \A j \in 1..i : city(territory_list[j]) # {}
        blocks(i) ==
            IF reached(i) THEN (CHOOSE c \in city(territory_list[i]) : TRUE).city_block
            ELSE 0
        city_players(territory) ==
            IF city(territory) # {}
            THEN Range(json_loads((CHOOSE c \in city(territory) : TRUE).city_players))
            ELSE {}
    IN  [territory_count |-> Len(territory_list),
         total_blocks |-> SumSeq([i \in DOMAIN territory_list |-> blocks(i)]),
         total_players |-> UNION {city_players(territory_list[i]) : i \in DOMAIN territory_list}]

\* A pass that aggregates the settlements affiliated to the polity
country_statistics_by_affiliation(country, cityTable) ==
    LET territory_list == json_loads(country.country_territory)
        affiliated == {c \in cityTable : c.city_country = country.country_name}
        order == CHOOSE o \in Orderings(affiliated) : TRUE
    IN  [territory_count |-> Len(territory_list),
         total_blocks |-> SumSeq([i \in DOMAIN order |-> order[i].city_block]),
         total_players |-> UNION {Range(json_loads(c.city_players)) : c \in affiliated}]

\* What one turn of the loop of update_country_statistics computes for country
country_statistics(country, cityTable) ==
    LET territory_list == json_loads(country.country_territory)
        city(territory) == {c \in cityTable : c.city_name = territory}
        city_data(territory) == CHOOSE c \in city(territory) : TRUE
        blocks(territory) ==
            IF city(territory) # {} /\ city_data(territory).city_block # 0
            THEN city_data(territory).city_block ELSE 0
        city_players(territory) ==
            IF city(territory) # {} /\ city_data(territory).city_players # <<>>
            THEN Range(json_loads(city_data(territory).city_players)) ELSE {}
    IN  [territory_count |-> Len(territory_list),
         total_blocks |-> SumSeq([i \in DOMAIN territory_list |-> blocks(territory_list[i])]),
         total_players |-> UNION {city_players(territory_list[i]) : i \in DOMAIN territory_list}]

\* An UPDATE that leaves territory_count as the upsert wrote it
update_statistics_row_no_count(table, country, cityTable) ==
    LET s == country_statistics(country, cityTable)
    IN  {IF r.country_name = country.country_name
         THEN [r EXCEPT !.player_count = Cardinality(s.total_players),
                        !.total_blocks = s.total_blocks]
         ELSE r : r \in table}

\* The UPDATE that ends a turn of the loop
update_statistics_row(table, country, cityTable) ==
    LET s == country_statistics(country, cityTable)
    IN  {IF r.country_name = country.country_name
         THEN [r EXCEPT !.territory_count = s.territory_count,
                        !.player_count = Cardinality(s.total_players),
                        !.total_blocks = s.total_blocks]
         ELSE r : r \in table}

\* update_country_statistics over the rows selected, the first n turns of its loop
RECURSIVE StatisticsTurns(_, _, _, _)
StatisticsTurns(table, selected, n, cityTable) ==
    IF n = 0 THEN table
    ELSE update_statistics_row(StatisticsTurns(table, selected, n - 1, cityTable),
                               selected[n], cityTable)

\* update_country_statistics run to its end, the rows selected in the order given
update_country_statistics(table, selected, cityTable) ==
    StatisticsTurns(table, selected, Len(selected), cityTable)

-----------------------------------------------------------------------------
(* database.py and spider.py: the inactivity classifier *)

Max(S) == CHOOSE m \in S : \A n \in S : n <= m

\* get_inactive_players: the baseline for accounts that own no settlement
first_run_time(configTable, now) ==
    LET first_run_time_str == get_system_config(configTable, FirstRunKey)
    IN  IF first_run_time_str # {} /\ (CHOOSE v \in first_run_time_str : TRUE) # <<>>
        THEN int(CHOOSE v \in first_run_time_str : TRUE)
        ELSE now

Min(S) == CHOOSE m \in S : \A n \in S : m <= n

\* A last_activity_time that takes the oldest settlement of the account
last_activity_time_oldest(account, cityTable, configTable, now) ==
    LET owned == {c \in cityTable : c.city_owner = account}
    IN  IF owned # {}
        THEN Min({c.update_time : c \in owned})
        ELSE first_run_time(configTable, now)

\* get_inactive_players: the column last_activity_time of the row of account
last_activity_time(account, cityTable, configTable, now) ==
    LET owned == {c \in cityTable : c.city_owner = account}
    IN  IF owned # {}
        THEN Max({c.update_time : c \in owned})
        ELSE first_run_time(configTable, now)

\* A get_inactive_players whose HAVING clause takes the boundary in
get_inactive_players_inclusive(playerTable, cityTable, configTable, now, days_threshold) ==
    LET time_threshold == now - (days_threshold * 24 * 60 * 60)
    IN  {p \in playerTable :
           last_activity_time(p.account, cityTable, configTable, now) <= time_threshold}

\* The rows get_inactive_players(now, days_threshold) returns
get_inactive_players(playerTable, cityTable, configTable, now, days_threshold) ==
    LET time_threshold == now - (days_threshold * 24 * 60 * 60)
    IN  {p \in playerTable :
           last_activity_time(p.account, cityTable, configTable, now) < time_threshold}

\* A check that reports every row the classifier returns
check_inactive_players_unfiltered(playerTable, cityTable, configTable, now) ==
    [days41 |-> {p.account : p \in get_inactive_players(playerTable, cityTable,
                                       configTable, now, ThresholdLow)},
     days42 |-> {p.account : p \in get_inactive_players(playerTable, cityTable,
                                       configTable, now, ThresholdHigh)}]

\* check_inactive_players: the accounts of the two bulletins
check_inactive_players(playerTable, cityTable, configTable, now) ==
    LET inactive_players_41 ==
            get_inactive_players(playerTable, cityTable, configTable, now, ThresholdLow)
        inactive_players_42 ==
            get_inactive_players(playerTable, cityTable, configTable, now, ThresholdHigh)
    IN  [days41 |-> {p.account : p \in {q \in inactive_players_41 :
                        /\ ThresholdLow * Day <= now - q.update_time
                        /\ now - q.update_time < ThresholdHigh * Day}},
         days42 |-> {p.account : p \in {q \in inactive_players_42 :
                        now - q.update_time >= ThresholdHigh * Day}}]

-----------------------------------------------------------------------------
(* parser.py: parse_city_description.  A text is a sequence of tokens, each   *)
(* token a piece of text the parser never looks into: a label, a separator,   *)
(* a digit, a sign, a blank or a word.  A description is what BeautifulSoup   *)
(* makes of the blob: the heading span, every li in document order with the   *)
(* ul it sits in, the text of the first div and the strong elements, each     *)
(* with the ul that follows its parent.  The labels of the game server's      *)
(* language are written in English: "level:" for the label of line 161,       *)
(* "balance:" 165, "block:" 169, "players(" 177, "owner:" 191,                *)
(* "belongs-to-nation" 201, "capital:" 220, "territory(" 224; "spawn" is the  *)
(* name of line 85.                                                           *)

\* What find() returns when the document has no such element
NoElement == <<"None">>

Blank == {" ", "\n"}

Digit ==
    ("0" :> 0) @@ ("1" :> 1) @@ ("2" :> 2) @@ ("3" :> 3) @@ ("4" :> 4) @@
    ("5" :> 5) @@ ("6" :> 6) @@ ("7" :> 7) @@ ("8" :> 8) @@ ("9" :> 9)

\* str.strip()
RECURSIVE strip_text(_)
strip_text(s) ==
    IF s = <<>> THEN s
    ELSE IF Head(s) \in Blank THEN strip_text(Tail(s))
    ELSE IF s[Len(s)] \in Blank THEN strip_text(SubSeq(s, 1, Len(s) - 1))
    ELSE s

\* str.replace(old, ''), old a token
replace_text(s, old) == SelectSeq(s, LAMBDA t : t # old)

\* str.startswith(prefix), prefix a token
startswith(s, prefix) == s # <<>> /\ Head(s) = prefix

\* prefix in text
contains(s, tok) == \E i \in DOMAIN s : s[i] = tok

\* str.split(sep): the pieces between the occurrences of sep
RECURSIVE split_text(_, _)
split_text(s, sep) ==
    IF ~contains(s, sep) THEN <<s>>
    ELSE LET i == CHOOSE k \in DOMAIN s : s[k] = sep /\ \A j \in 1..(k - 1) : s[j] # sep
         IN  <<SubSeq(s, 1, i - 1)>> \o split_text(SubSeq(s, i + 1, Len(s)), sep)

\* int(text): ok is FALSE where int raises ValueError
RECURSIVE digits_value(_)
digits_value(s) ==
    IF s = <<>> THEN 0 ELSE 10 * digits_value(SubSeq(s, 1, Len(s) - 1)) + Digit[s[Len(s)]]

int_text(s) ==
    LET t == strip_text(s)
        signed == t # <<>> /\ Head(t) \in {"-", "+"}
        body == IF signed THEN Tail(t) ELSE t
    IN  IF body # <<>> /\ \A i \in DOMAIN body : body[i] \in DOMAIN Digit
        THEN [ok |-> TRUE,
              value |-> IF signed /\ Head(t) = "-" THEN 0 - digits_value(body)
                        ELSE digits_value(body)]
        ELSE [ok |-> FALSE, value |-> 0]

\* re.search(r'owner:\s*([^.]+)', div_text): group 1 of the first match, or
\* NoElement when nothing matches
RECURSIVE owner_match(_)
owner_match(div_text) ==
    IF ~contains(div_text, "owner:") THEN NoElement
    ELSE LET i == CHOOSE k \in DOMAIN div_text :
                      div_text[k] = "owner:" /\ \A j \in 1..(k - 1) : div_text[j] # "owner:"
             rest == SubSeq(div_text, i + 1, Len(div_text))
             blanks == CHOOSE n \in 0..Len(rest) :
                          /\ \A j \in 1..n : rest[j] \in Blank
                          /\ n < Len(rest) => rest[n + 1] \notin Blank
             \* \s* gives its last blank back when no other character can follow
             start == IF blanks < Len(rest) /\ rest[blanks + 1] # "." THEN blanks + 1
                      ELSE blanks
             until == CHOOSE n \in start..Len(rest) :
                          /\ \A j \in start..n : j >= 1 => rest[j] # "."
                          /\ n < Len(rest) => rest[n + 1] = "."
         IN  IF start = 0 THEN owner_match(rest)
             ELSE SubSeq(rest, start, until)

\* Lines 132-143: the record parse_city_description starts from
default_result ==
    [city_name |-> <<>>, city_level |-> <<>>, city_owner |-> <<>>,
     city_balance |-> <<>>, city_block |-> 0, city_players |-> <<>>,
     city_country |-> <<>>, city_country_level |-> <<>>,
     city_country_capital |-> <<>>, city_country_territory |-> <<>>]

\* Lines 150-153: the name, from the heading span
parse_name(res, desc) ==
    IF desc.span # NoElement
    THEN [res EXCEPT !.city_name =
            replace_text(replace_text(strip_text(desc.span), "\n"), "\r")]
    ELSE res

\* text.split('):')[1].strip() split at the commas, each piece stripped
csv_after_paren(text) ==
    LET part == strip_text(split_text(text, "):")[2])
        pieces == split_text(part, ",")
    IN  IF part # <<>> THEN [i \in DOMAIN pieces |-> strip_text(pieces[i])] ELSE <<>>

\* Lines 158-182: one turn of the loop over the li elements
parse_item(res, li) ==
    LET text == strip_text(li)
    IN  IF startswith(text, "level:")
        THEN [res EXCEPT !.city_level = strip_text(replace_text(text, "level:"))]
        ELSE IF startswith(text, "balance:")
        THEN [res EXCEPT !.city_balance = strip_text(replace_text(text, "balance:"))]
        ELSE IF startswith(text, "block:")
        THEN LET block == int_text(replace_text(text, "block:"))
             IN  [res EXCEPT !.city_block = IF block.ok THEN block.value ELSE 0]
        ELSE IF contains(text, "players(") /\ contains(text, "):")
        THEN IF csv_after_paren(text) # <<>>
             THEN [res EXCEPT !.city_players = csv_after_paren(text)]
             ELSE res
        ELSE res

\* Lines 156-157: the loop over every li of the document
RECURSIVE parse_items(_, _, _)
parse_items(res, items, n) ==
    IF n = 0 THEN res ELSE parse_item(parse_items(res, items, n - 1), items[n].text)

\* Lines 187-193: the owner, from the text of the first div
parse_owner(res, desc) ==
    IF desc.div # NoElement /\ owner_match(desc.div) # NoElement
    THEN [res EXCEPT !.city_owner = strip_text(owner_match(desc.div))]
    ELSE res

\* A fallback that prefers the first member to the owner the div named
owner_fallback_members_first(res) ==
    IF res.city_players # <<>>
    THEN [res EXCEPT !.city_owner = res.city_players[1]]
    ELSE res

\* A fallback that takes the last member
owner_fallback_last(res) ==
    IF res.city_owner = <<>>
    THEN [res EXCEPT !.city_owner =
            IF res.city_players # <<>> THEN res.city_players[Len(res.city_players)]
            ELSE <<>>]
    ELSE res

\* Lines 195-196: without an owner, the first member
owner_fallback(res) ==
    IF res.city_owner = <<>>
    THEN [res EXCEPT !.city_owner =
            IF res.city_players # <<>> THEN res.city_players[1] ELSE <<>>]
    ELSE res

\* re.search(r'belongs-to-nation([^:]+):', country_text): group 1, or NoElement
RECURSIVE country_match(_)
country_match(country_text) ==
    IF ~contains(country_text, "belongs-to-nation") THEN NoElement
    ELSE LET i == CHOOSE k \in DOMAIN country_text :
                      /\ country_text[k] = "belongs-to-nation"
                      /\ \A j \in 1..(k - 1) : country_text[j] # "belongs-to-nation"
             rest == SubSeq(country_text, i + 1, Len(country_text))
         IN  IF ~contains(rest, ":") THEN NoElement
             ELSE IF Head(rest) = ":" THEN country_match(rest)
             ELSE Head(split_text(rest, ":"))

\* Lines 213-228: one turn of the loop over the li elements of the polity's ul
parse_country_item(res, li) ==
    LET text == strip_text(li)
    IN  IF startswith(text, "level:")
        THEN [res EXCEPT !.city_country_level = strip_text(replace_text(text, "level:"))]
        ELSE IF startswith(text, "capital:")
        THEN [res EXCEPT !.city_country_capital = strip_text(replace_text(text, "capital:"))]
        ELSE IF contains(text, "territory(") /\ contains(text, "):")
        THEN IF csv_after_paren(text) # <<>>
             THEN [res EXCEPT !.city_country_territory = csv_after_paren(text)]
             ELSE res
        ELSE res

RECURSIVE parse_country_items(_, _, _)
parse_country_items(res, items, n) ==
    IF n = 0 THEN res
    ELSE parse_country_item(parse_country_items(res, items, n - 1), items[n].text)

\* Lines 199-229: the polity block, from the first strong that carries the phrase
parse_country(res, desc) ==
    LET hits == {k \in DOMAIN desc.strong : contains(desc.strong[k].text, "belongs-to-nation")}
    IN  IF hits = {} THEN res
        ELSE LET strong == desc.strong[CHOOSE k \in hits : \A j \in hits : k <= j]
                 named == IF country_match(strong.text) # NoElement
                          THEN [res EXCEPT
                                  !.city_country = strip_text(country_match(strong.text))]
                          ELSE res
                 country_li == IF strong.ul = 0 THEN <<>>
                               ELSE SelectSeq(desc.li, LAMBDA li : li.ul = strong.ul)
             IN  parse_country_items(named, country_li, Len(country_li))

\* parse_city_description of a blob BeautifulSoup takes; of any other value the
\* constructor raises and the record is returned as it started
parse_city_description(desc) ==
    IF desc.kind # "html" THEN default_result
    ELSE parse_country(
             owner_fallback(
                 parse_owner(parse_items(parse_name(default_result, desc),
                                         desc.li, Len(desc.li)), desc)), desc)

-----------------------------------------------------------------------------
(* The descriptions parse_city_description is given *)

MaxItems == 2

\* What the li elements of a settlement's own list can read
ItemCatalogue ==
    { <<"level:", " ", "3">>,
      <<"balance:", "$", "9">>,
      <<"block:", "5", "0">>,
      <<"block:", "-", "5">>,
      <<"block:", "5", "x">>,
      <<"players(", "2", "):", "a", ",", " ", "b">>,
      <<"players(", "0", "):", " ">> }

\* The heading span: none, a name, the spawn point, a name with line breaks
SpanCatalogue == {NoElement, <<"A">>, <<"spawn">>, <<" ", "A", "\n", "B", "\n">>}

\* The text of the first div: no div, no owner, an owner, an owner of blanks only
DivCatalogue ==
    { NoElement,
      <<"t", ".">>,
      <<"owner:", " ", "x", " ", ".", "t">>,
      <<"owner:", " ", ".">> }

\* The polity block: none, a block, a block without a name after another strong
CountryCatalogue ==
    { [strong |-> <<>>, li |-> <<>>],
      [strong |-> <<[text |-> <<"belongs-to-nation", " ", "P", ":">>, ul |-> 2]>>,
       li |-> << [text |-> <<"level:", "1">>, ul |-> 2],
                 [text |-> <<"capital:", "A">>, ul |-> 2],
                 [text |-> <<"territory(", "2", "):", "A", ",", "B">>, ul |-> 2] >>],
      [strong |-> <<[text |-> <<"t">>, ul |-> 0],
                    [text |-> <<"belongs-to-nation", ":">>, ul |-> 0]>>,
       li |-> <<>>] }

Descriptions ==
    {[kind |-> "other"]} \cup
    { [kind |-> "html", span |-> span, div |-> div,
       li |-> [i \in DOMAIN items |-> [text |-> items[i], ul |-> 1]] \o country.li,
       strong |-> country.strong] :
        span \in SpanCatalogue, div \in DivCatalogue, country \in CountryCatalogue,
        items \in {<<>>} \cup Arrangements(ItemCatalogue, MaxItems) }

-----------------------------------------------------------------------------
(* spider.py: the three upsert loops of process_and_store_data.  failed holds *)
(* the indices of the records whose upsert returned False.                    *)

RECURSIVE StorePlayersFrom(_, _, _, _, _)
StorePlayersFrom(table, records, i, failed, t) ==
    IF i > Len(records) THEN table
    ELSE StorePlayersFrom(IF i \in failed THEN table
                          ELSE insert_or_update_player(table, records[i], t),
                          records, i + 1, failed, t)

\* A settlement loop that the first failed upsert ends
RECURSIVE StoreCitiesFrom_abort(_, _, _, _, _)
StoreCitiesFrom_abort(table, records, i, failed, t) ==
    IF i > Len(records) \/ i \in failed THEN table
    ELSE StoreCitiesFrom_abort(insert_or_update_city(table, records[i], t),
                               records, i + 1, failed, t)

\* A settlement loop that ends by deleting the settlements the payload lacks
RECURSIVE StoreCitiesFrom_sync(_, _, _, _, _)
StoreCitiesFrom_sync(table, records, i, failed, t) ==
    IF i > Len(records)
    THEN {r \in table : \E k \in DOMAIN records : records[k].city_name = r.city_name}
    ELSE StoreCitiesFrom_sync(IF i \in failed THEN table
                              ELSE insert_or_update_city(table, records[i], t),
                              records, i + 1, failed, t)

RECURSIVE StoreCitiesFrom(_, _, _, _, _)
StoreCitiesFrom(table, records, i, failed, t) ==
    IF i > Len(records) THEN table
    ELSE StoreCitiesFrom(IF i \in failed THEN table
                         ELSE insert_or_update_city(table, records[i], t),
                         records, i + 1, failed, t)

RECURSIVE StoreCountriesFrom(_, _, _, _, _)
StoreCountriesFrom(table, records, i, failed, t) ==
    IF i > Len(records) THEN table
    ELSE StoreCountriesFrom(IF i \in failed THEN table
                            ELSE insert_or_update_country(table, records[i], t),
                            records, i + 1, failed, t)

-----------------------------------------------------------------------------
(* What a cycle leaves behind, as later cycles are compared with it *)

\* The persisted settlements without their update time
Settlements(cityTable) ==
    {[city_name |-> c.city_name, label |-> c.label, city_level |-> c.city_level,
      city_owner |-> c.city_owner, city_balance |-> c.city_balance,
      city_block |-> c.city_block, city_players |-> c.city_players,
      city_country |-> c.city_country] : c \in cityTable}

\* The aggregates of the persisted polities
Polities(countryTable) ==
    {[country_name |-> c.country_name, territory_count |-> c.territory_count,
      player_count |-> c.player_count, total_blocks |-> c.total_blocks] : c \in countryTable}

-----------------------------------------------------------------------------
\* No description is being parsed
ParserIdle ==
    /\ desc_html = [kind |-> "other"]
    /\ result = default_result
    /\ ppc = "idle"
    /\ li_done = 0

\* No payload is being extracted
ExtractorIdle ==
    /\ json_data = <<>>
    /\ cities_out = <<>>
    /\ epos = 0
    /\ epc = "idle"

\* Python's None
None == [kind |-> "None"]

\* run_continuous has not been interrupted
NotStopped == [at |-> "none", index |-> 0, committed |-> FALSE]

\* The store as init_database creates it, and no spider
CycleInit ==
    /\ players = {}
    /\ cities = {}
    /\ countries = {}
    /\ system_config = {}
    /\ clock = 0
    /\ pc = "off"
    /\ current_time = 0
    /\ batch = [players |-> <<>>, cities |-> <<>>, countries |-> <<>>]
    /\ faults = [players |-> {}, cities |-> {}, countries |-> {}]
    /\ stats_done = 0
    /\ report = [days41 |-> {}, days42 |-> {}]
    /\ lastResult = "none"
    /\ cyclesRun = 0
    /\ raised = 0
    /\ prev = [result |-> "none", players |-> <<>>, cities |-> <<>>,
               settlements |-> {}, polities |-> {}]
    /\ stop = NotStopped
    /\ country_info = [country_name |-> "", returned |-> None]

Init == CycleInit /\ ParserIdle /\ ExtractorIdle

\* No spider has been constructed yet: time is counted from the first construction
FirstConstruction ==
    raised = 0 /\ get_system_config(system_config, FirstRunKey) = {}

\* SIMMCSpider.__init__ at time t; ok: the store took the write of the marker
SpiderInit(t, ok) ==
    /\ pc = "off"
    /\ t >= clock
    /\ FirstConstruction => t = 0
    /\ clock' = IF get_system_config(system_config, FirstRunKey) = {} THEN t ELSE clock
    /\ system_config' = record_first_run_timestamp(system_config, t, ok)
    /\ ok \/ get_system_config(system_config, FirstRunKey) = {}
    /\ raised' = IF ok THEN raised ELSE raised + 1
    /\ raised' <= MaxFaults
    /\ pc' = "ready"
    /\ UNCHANGED <<parserVars, extractorVars, stop, country_info>>
    /\ UNCHANGED <<players, cities, countries, current_time, batch, faults,
                   stats_done, report, lastResult, cyclesRun, prev>>

\* The process ends (main.py returns) with no cycle running
Shutdown ==
    /\ pc \in {"ready", "idle"}
    /\ pc' = "off"
    /\ UNCHANGED <<parserVars, extractorVars, stop, country_info>>
    /\ UNCHANGED <<players, cities, countries, system_config, clock, current_time,
                   batch, faults, stats_done, report, lastResult, cyclesRun, raised,
                   prev>>

\* What the cycle that starts now will be compared with
Remember ==
    [result |-> lastResult, players |-> batch.players, cities |-> batch.cities,
     settlements |-> Settlements(cities), polities |-> Polities(countries)]

\* A process_and_store_data that does not look at the settlement list it fetched
FetchFails_cities_unchecked(t, ps, cs) ==
    /\ pc \in {"ready", "idle"}
    /\ cyclesRun < MaxCycles
    /\ t >= clock
    /\ ps = <<>> \/ cs = <<>>
    /\ clock' = t
    /\ current_time' = t
    /\ cyclesRun' = cyclesRun + 1
    /\ prev' = Remember
    /\ batch' = [players |-> ps, cities |-> <<>>, countries |-> <<>>]
    /\ lastResult' = IF ps = <<>> THEN "fail" ELSE "running"
    /\ pc' = IF ps = <<>> THEN "idle" ELSE "players"
    /\ UNCHANGED <<parserVars, extractorVars, stop, country_info>>
    /\ UNCHANGED <<players, cities, countries, system_config, faults, stats_done,
                   report, raised>>

\* process_and_store_data, a fetch that returns no account or no settlement
FetchFails(t, ps, cs) ==
    /\ pc \in {"ready", "idle"}
    /\ cyclesRun < MaxCycles
    /\ t >= clock
    /\ ps = <<>> \/ cs = <<>>
    /\ clock' = t
    /\ current_time' = t
    /\ cyclesRun' = cyclesRun + 1
    /\ prev' = Remember
    /\ batch' = [players |-> ps, cities |-> IF ps = <<>> THEN <<>> ELSE cs,
                 countries |-> <<>>]
    /\ lastResult' = "fail"
    /\ pc' = "idle"
    /\ UNCHANGED <<parserVars, extractorVars, stop, country_info>>
    /\ UNCHANGED <<players, cities, countries, system_config, faults, stats_done,
                   report, raised>>

\* A cycle that a timer starts whatever the cycle before it is doing
FetchData_timer(t, ps, cs) ==
    /\ pc \notin {"off"}
    /\ cyclesRun < MaxCycles
    /\ t >= clock
    /\ ps # <<>> /\ cs # <<>>
    /\ clock' = t
    /\ current_time' = t
    /\ cyclesRun' = cyclesRun + 1
    /\ prev' = Remember
    /\ batch' = [players |-> ps, cities |-> cs, countries |-> extract_country_data(cs)]
    /\ faults' = [players |-> {}, cities |-> {}, countries |-> {}]
    /\ stats_done' = 0
    /\ lastResult' = "running"
    /\ pc' = "players"
    /\ UNCHANGED <<parserVars, extractorVars, stop, country_info>>
    /\ UNCHANGED <<players, cities, countries, system_config, report, raised>>

\* process_and_store_data up to its first write: both fetches and the deriver
FetchData(t, ps, cs) ==
    /\ pc \in {"ready", "idle"}
    /\ cyclesRun < MaxCycles
    /\ t >= clock
    /\ ps # <<>> /\ cs # <<>>
    /\ clock' = t
    /\ current_time' = t
    /\ cyclesRun' = cyclesRun + 1
    /\ prev' = Remember
    /\ batch' = [players |-> ps, cities |-> cs, countries |-> extract_country_data(cs)]
    /\ faults' = [players |-> {}, cities |-> {}, countries |-> {}]
    /\ stats_done' = 0
    /\ lastResult' = "running"
    /\ pc' = "players"
    /\ UNCHANGED <<parserVars, extractorVars, stop, country_info>>
    /\ UNCHANGED <<players, cities, countries, system_config, report, raised>>

\* The loop over players
StorePlayers(failed) ==
    /\ pc = "players"
    /\ players' = StorePlayersFrom(players, batch.players, 1, failed, current_time)
    /\ faults' = [faults EXCEPT !.players = failed]
    /\ raised' = raised + Cardinality(failed)
    /\ raised' <= MaxFaults
    /\ pc' = "cities"
    /\ UNCHANGED <<parserVars, extractorVars, stop, country_info>>
    /\ UNCHANGED <<cities, countries, system_config, clock, current_time, batch,
                   stats_done, report, lastResult, cyclesRun, prev>>

\* A loop over cities that hands over to the statistics pass
StoreCities_then_statistics(failed) ==
    /\ pc = "cities"
    /\ cities' = StoreCitiesFrom(cities, batch.cities, 1, failed, current_time)
    /\ faults' = [faults EXCEPT !.cities = failed]
    /\ raised' = raised + Cardinality(failed)
    /\ raised' <= MaxFaults
    /\ pc' = "statistics"
    /\ UNCHANGED <<parserVars, extractorVars, stop, country_info>>
    /\ UNCHANGED <<players, countries, system_config, clock, current_time, batch,
                   stats_done, report, lastResult, cyclesRun, prev>>

\* The loop over cities
StoreCities(failed) ==
    /\ pc = "cities"
    /\ cities' = StoreCitiesFrom(cities, batch.cities, 1, failed, current_time)
    /\ faults' = [faults EXCEPT !.cities = failed]
    /\ raised' = raised + Cardinality(failed)
    /\ raised' <= MaxFaults
    /\ pc' = "countries"
    /\ UNCHANGED <<parserVars, extractorVars, stop, country_info>>
    /\ UNCHANGED <<players, countries, system_config, clock, current_time, batch,
                   stats_done, report, lastResult, cyclesRun, prev>>

\* The loop over countries
StoreCountries(failed) ==
    /\ pc = "countries"
    /\ countries' = StoreCountriesFrom(countries, batch.countries, 1, failed, current_time)
    /\ faults' = [faults EXCEPT !.countries = failed]
    /\ raised' = raised + Cardinality(failed)
    /\ raised' <= MaxFaults
    /\ pc' = "statistics"
    /\ UNCHANGED <<parserVars, extractorVars, stop, country_info>>
    /\ UNCHANGED <<players, cities, system_config, clock, current_time, batch,
                   stats_done, report, lastResult, cyclesRun, prev>>

\* A pass whose error reaches process_and_store_data, which returns False
UpdateStatistics_propagating(selected, n) ==
    /\ pc = "statistics"
    /\ selected \in Orderings(countries)
    /\ n \in 0..Len(selected)
    /\ countries' = StatisticsTurns(countries, selected, n, cities)
    /\ stats_done' = n
    /\ raised' = IF n < Len(selected) THEN raised + 1 ELSE raised
    /\ raised' <= MaxFaults
    /\ pc' = IF n < Len(selected) THEN "idle" ELSE "check"
    /\ lastResult' = IF n < Len(selected) THEN "fail" ELSE lastResult
    /\ UNCHANGED <<parserVars, extractorVars, stop, country_info>>
    /\ UNCHANGED <<players, cities, system_config, clock, current_time, batch,
                   faults, report, cyclesRun, prev>>

\* update_country_statistics: the rows come in the order selected, and the pass
\* ends after n turns of its loop (all of them unless a statement raised)
UpdateStatistics(selected, n) ==
    /\ pc = "statistics"
    /\ selected \in Orderings(countries)
    /\ n \in 0..Len(selected)
    /\ countries' = StatisticsTurns(countries, selected, n, cities)
    /\ stats_done' = n
    /\ raised' = IF n < Len(selected) THEN raised + 1 ELSE raised
    /\ raised' <= MaxFaults
    /\ pc' = "check"
    /\ UNCHANGED <<parserVars, extractorVars, stop, country_info>>
    /\ UNCHANGED <<players, cities, system_config, clock, current_time, batch,
                   faults, report, lastResult, cyclesRun, prev>>

\* check_inactive_players, then process_and_store_data returns True; ok: no query
\* of the check raised
CheckInactive(ok) ==
    /\ pc = "check"
    /\ report' = IF ok
                 THEN check_inactive_players(players, cities, system_config, current_time)
                 ELSE [days41 |-> {}, days42 |-> {}]
    /\ raised' = IF ok THEN raised ELSE raised + 1
    /\ raised' <= MaxFaults
    /\ lastResult' = "ok"
    /\ pc' = "idle"
    /\ UNCHANGED <<parserVars, extractorVars, stop, country_info>>
    /\ UNCHANGED <<players, cities, countries, system_config, clock, current_time,
                   batch, faults, stats_done, cyclesRun, prev>>

Next ==
    \/ \E t \in Times : SpiderInit(t, TRUE)
    \/ Shutdown
    \/ \E t \in Times, ps \in PlayerBatches, cs \in CityBatches : FetchFails(t, ps, cs)
    \/ \E t \in Times, ps \in PlayerBatches, cs \in CityBatches : FetchData(t, ps, cs)
    \/ StorePlayers({})
    \/ StoreCities({})
    \/ StoreCountries({})
    \/ \E selected \in Orderings(countries) : UpdateStatistics(selected, Len(selected))
    \/ CheckInactive(TRUE)

Spec == Init /\ [][Next]_vars

\* The same process on a store whose statements can raise, MaxFaults times in all
NextFault ==
    \/ \E t \in Times, ok \in BOOLEAN : SpiderInit(t, ok)
    \/ Shutdown
    \/ \E t \in Times, ps \in PlayerBatches, cs \in CityBatches : FetchFails(t, ps, cs)
    \/ \E t \in Times, ps \in PlayerBatches, cs \in CityBatches : FetchData(t, ps, cs)
    \/ \E failed \in SUBSET DOMAIN batch.players : StorePlayers(failed)
    \/ \E failed \in SUBSET DOMAIN batch.cities : StoreCities(failed)
    \/ \E failed \in SUBSET DOMAIN batch.countries : StoreCountries(failed)
    \/ \E selected \in Orderings(countries), n \in 0..Cardinality(countries) :
          UpdateStatistics(selected, n)
    \/ \E ok \in BOOLEAN : CheckInactive(ok)

SpecFault == Init /\ [][NextFault]_vars

-----------------------------------------------------------------------------
(* parse_city_description, statement by statement *)

InitParser ==
    /\ CycleInit
    /\ ExtractorIdle
    /\ desc_html \in Descriptions
    /\ result = default_result
    /\ ppc = "soup"
    /\ li_done = 0

\* Line 147: BeautifulSoup(desc_html, 'lxml') of a text
MakeSoup ==
    /\ ppc = "soup"
    /\ desc_html.kind = "html"
    /\ ppc' = "name"
    /\ UNCHANGED <<desc_html, result, li_done, cycleVars, extractorVars>>

\* Line 147 raises on anything else; lines 231-232 catch it, line 242 returns
SoupRaises ==
    /\ ppc = "soup"
    /\ desc_html.kind # "html"
    /\ ppc' = "done"
    /\ UNCHANGED <<desc_html, result, li_done, cycleVars, extractorVars>>

ParseName ==
    /\ ppc = "name"
    /\ result' = parse_name(result, desc_html)
    /\ ppc' = "items"
    /\ UNCHANGED <<desc_html, li_done, cycleVars, extractorVars>>

\* One turn of the loop of line 157
ParseItem ==
    /\ ppc = "items"
    /\ li_done < Len(desc_html.li)
    /\ result' = parse_item(result, desc_html.li[li_done + 1].text)
    /\ li_done' = li_done + 1
    /\ UNCHANGED <<desc_html, ppc, cycleVars, extractorVars>>

ParseOwner ==
    /\ ppc = "items"
    /\ li_done = Len(desc_html.li)
    /\ result' = parse_owner(result, desc_html)
    /\ ppc' = "fallback"
    /\ UNCHANGED <<desc_html, li_done, cycleVars, extractorVars>>

OwnerFallback ==
    /\ ppc = "fallback"
    /\ result' = owner_fallback(result)
    /\ ppc' = "country"
    /\ UNCHANGED <<desc_html, li_done, cycleVars, extractorVars>>

\* Lines 199-229, then line 242 returns
ParseCountry ==
    /\ ppc = "country"
    /\ result' = parse_country(result, desc_html)
    /\ ppc' = "done"
    /\ UNCHANGED <<desc_html, li_done, cycleVars, extractorVars>>

\* An error handler that returns an empty record
StatementRaises_empty ==
    /\ ppc \in {"name", "items", "fallback", "country"}
    /\ ppc' = "done"
    /\ result' = [city_name |-> <<>>]
    /\ UNCHANGED <<desc_html, li_done, cycleVars, extractorVars>>

\* A statement inside the try raises; lines 231-232 catch it, line 242 returns
StatementRaises ==
    /\ ppc \in {"name", "items", "fallback", "country"}
    /\ ppc' = "done"
    /\ UNCHANGED <<desc_html, result, li_done, cycleVars, extractorVars>>

NextParser ==
    \/ MakeSoup
    \/ SoupRaises
    \/ ParseName
    \/ ParseItem
    \/ ParseOwner
    \/ OwnerFallback
    \/ ParseCountry

SpecParser == InitParser /\ [][NextParser]_vars

\* The same parse with an error possible at any statement of the try block
NextParserFault ==
    \/ MakeSoup
    \/ SoupRaises
    \/ ParseName
    \/ ParseItem
    \/ ParseOwner
    \/ OwnerFallback
    \/ ParseCountry
    \/ StatementRaises

SpecParserFault == InitParser /\ [][NextParserFault]_vars

-----------------------------------------------------------------------------
(* spider.py: run_continuous with the exceptions its handlers are written for.
   KeyboardInterrupt is no Exception: no handler of process_and_store_data or of
   the upserts takes it, and the handler of line 366 ends the loop.  Python
   raises it between two statements.  In execute_update (database.py:127-131)
   that is before cursor.execute, between cursor.execute and conn.commit, where
   the with block rolls the statement back, or after conn.commit.  The process
   is followed up to the interrupt: pc = "stopped" is its end. *)

\* The table after the first n turns of the loop over players, cities or countries
RECURSIVE StoredUpTo(_, _, _, _, _)
StoredUpTo(table, records, n, t, loop) ==
    IF n = 0 THEN table
    ELSE LET before == StoredUpTo(table, records, n - 1, t, loop)
         IN  IF loop = "players" THEN insert_or_update_player(before, records[n], t)
             ELSE IF loop = "cities" THEN insert_or_update_city(before, records[n], t)
             ELSE insert_or_update_country(before, records[n], t)

\* How many records are stored when the upsert of record n is interrupted
Turns(n, committed) == IF committed THEN n ELSE n - 1

\* KeyboardInterrupt during the upsert of player n
InterruptPlayers(n, committed) ==
    /\ pc = "players"
    /\ n \in DOMAIN batch.players
    /\ players' = StoredUpTo(players, batch.players, Turns(n, committed), current_time,
                           "players")
    /\ stop' = [at |-> "players", index |-> n, committed |-> committed]
    /\ lastResult' = "interrupted"
    /\ pc' = "stopped"
    /\ UNCHANGED <<parserVars, extractorVars, country_info>>
    /\ UNCHANGED <<cities, countries, system_config, clock, current_time, batch, faults,
                   stats_done, report, cyclesRun, raised, prev>>

\* KeyboardInterrupt during the upsert of settlement n
InterruptCities(n, committed) ==
    /\ pc = "cities"
    /\ n \in DOMAIN batch.cities
    /\ cities' = StoredUpTo(cities, batch.cities, Turns(n, committed), current_time,
                          "cities")
    /\ stop' = [at |-> "cities", index |-> n, committed |-> committed]
    /\ lastResult' = "interrupted"
    /\ pc' = "stopped"
    /\ UNCHANGED <<parserVars, extractorVars, country_info>>
    /\ UNCHANGED <<players, countries, system_config, clock, current_time, batch, faults,
                   stats_done, report, cyclesRun, raised, prev>>

\* KeyboardInterrupt during the upsert of polity n
InterruptCountries(n, committed) ==
    /\ pc = "countries"
    /\ n \in DOMAIN batch.countries
    /\ countries' = StoredUpTo(countries, batch.countries, Turns(n, committed), current_time,
                             "countries")
    /\ stop' = [at |-> "countries", index |-> n, committed |-> committed]
    /\ lastResult' = "interrupted"
    /\ pc' = "stopped"
    /\ UNCHANGED <<parserVars, extractorVars, country_info>>
    /\ UNCHANGED <<players, cities, system_config, clock, current_time, batch, faults,
                   stats_done, report, cyclesRun, raised, prev>>

\* KeyboardInterrupt where no upsert is running: in the statistics pass after n
\* turns of its loop, in the inactivity check, or in time.sleep (line 364)
InterruptElsewhere(selected, n) ==
    /\ pc \in {"statistics", "check", "idle"}
    /\ selected \in Orderings(countries)
    /\ n \in 0..Len(selected)
    /\ pc # "statistics" => n = 0
    /\ countries' = StatisticsTurns(countries, selected, n, cities)
    /\ stop' = [at |-> pc, index |-> 0, committed |-> FALSE]
    /\ lastResult' = IF pc = "idle" THEN lastResult ELSE "interrupted"
    /\ pc' = "stopped"
    /\ UNCHANGED <<parserVars, extractorVars, country_info>>
    /\ UNCHANGED <<players, cities, system_config, clock, current_time, batch, faults,
                   stats_done, report, cyclesRun, raised, prev>>

\* An Exception between two loops of process_and_store_data: lines 223-225
\* return False, and run_continuous sleeps
CycleRaises ==
    /\ pc \in {"players", "cities", "countries", "statistics", "check"}
    /\ raised' = raised + 1
    /\ raised' <= MaxFaults
    /\ lastResult' = "fail"
    /\ pc' = "idle"
    /\ UNCHANGED <<parserVars, extractorVars, stop, country_info>>
    /\ UNCHANGED <<players, cities, countries, system_config, clock, current_time,
                   batch, faults, stats_done, report, cyclesRun, prev>>

NextRun ==
    \/ Next
    \/ \E n \in 1..MaxBatch, committed \in BOOLEAN : InterruptPlayers(n, committed)
    \/ \E n \in 1..MaxBatch, committed \in BOOLEAN : InterruptCities(n, committed)
    \/ \E n \in 1..MaxBatch, committed \in BOOLEAN : InterruptCountries(n, committed)
    \/ \E selected \in Orderings(countries), n \in 0..Cardinality(countries) :
          InterruptElsewhere(selected, n)
    \/ CycleRaises

SpecRun == Init /\ [][NextRun]_vars

-----------------------------------------------------------------------------
(* query_service.py: get_country_info, asked between cycles *)

\* row[key] of a sqlite3.Row: the column, or IndexError when the row has none
\* of that name
Column(row, key) ==
    IF key \in DOMAIN row THEN [ok |-> TRUE, value |-> row[key]]
    ELSE [ok |-> FALSE, value |-> None]

\* Lines 169-202
get_country_info(table, country_name) ==
    LET countries_found == {r \in table : r.country_name = country_name}
    IN  IF countries_found = {} THEN None
        ELSE LET country == CHOOSE r \in countries_found : TRUE
             IN  IF ~Column(country, "territories").ok THEN None
                 ELSE [kind |-> "dict",
                       country_name |-> country.country_name,
                       country_level |-> country.country_level,
                       country_capital |-> country.country_capital,
                       territories |-> json_loads(Column(country, "territories").value),
                       territory_count |-> country.territory_count,
                       player_count |-> country.player_count,
                       total_blocks |-> country.total_blocks,
                       last_updated |-> country.update_time]

\* The names asked for: the polities of the catalogue and one that is none
CountryNames == {"P", "Q", "Z"}

GetCountryInfo(country_name) ==
    /\ pc \in {"idle", "off"}
    /\ country_info' = [country_name |-> country_name,
                        returned |-> get_country_info(countries, country_name)]
    /\ UNCHANGED <<parserVars, extractorVars, stop>>
    /\ UNCHANGED <<players, cities, countries, system_config, clock, pc, current_time,
                   batch, faults, stats_done, report, lastResult, cyclesRun, raised,
                   prev>>

NextQuery ==
    \/ Next
    \/ \E country_name \in CountryNames : GetCountryInfo(country_name)

SpecQuery == Init /\ [][NextQuery]_vars

-----------------------------------------------------------------------------
(* database.py: set_system_config called on its own *)

\* The keys and the values set_system_config is called with
ConfigKeys == {FirstRunKey, "interval"}

ConfigValues == {str(t) : t \in Times}

\* set_system_config(config_key, config_value) at time t
SetSystemConfig(config_key, config_value, t) ==
    /\ pc = "off"
    /\ t >= clock
    /\ clock' = t
    /\ system_config' = set_system_config(system_config, config_key, config_value, t)
    /\ UNCHANGED <<parserVars, extractorVars, stop, country_info>>
    /\ UNCHANGED <<players, cities, countries, pc, current_time, batch, faults,
                   stats_done, report, lastResult, cyclesRun, raised, prev>>

NextConfig ==
    \E config_key \in ConfigKeys, config_value \in ConfigValues, t \in Times :
        SetSystemConfig(config_key, config_value, t)

SpecConfig == Init /\ [][NextConfig]_vars

-----------------------------------------------------------------------------
(* parser.py: parse_city_data.  A payload is [areas, markers], each a sequence of
   <<id, city_info>> in the order of the JSON object's keys.  A city_info is a
   record: keys is the set of keys the JSON object has, the other fields are
   their values.  A coordinate is [kind |-> "list", items], [kind |-> "number",
   value] or [kind |-> "text"]; a number is written as its digit, and a list item
   that is no digit is a text float() does not take. *)

MaxEntries == 2

\* float(v) of line 115: the value, or ValueError
float(v) ==
    IF v \in DOMAIN Digit THEN [ok |-> TRUE, value |-> Digit[v]] ELSE [ok |-> FALSE, value |-> 0]

\* Lines 104-119
get_coordinate(coord_data) ==
    IF coord_data.kind = "list" /\ Len(coord_data.items) > 0
    THEN float(coord_data.items[1])
    ELSE IF coord_data.kind = "number"
    THEN float(coord_data.value)
    ELSE [ok |-> TRUE, value |-> 0]

\* Lines 69-71: dict.update keeps the place of a key it has and appends the others
all_city_data(areas, markers) ==
    LET ids(s) == {s[k][1] : k \in DOMAIN s}
        value(id, s) == (CHOOSE k \in DOMAIN s : s[k][1] = id)
        updated == [k \in DOMAIN areas |->
                      IF areas[k][1] \in ids(markers)
                      THEN markers[value(areas[k][1], markers)]
                      ELSE areas[k]]
    IN  updated \o SelectSeq(markers, LAMBDA e : e[1] \notin ids(areas))

\* Line 77 and line 79: city_info.get(key, [0])
coordinate(city_info, key) ==
    IF key \in city_info.keys THEN city_info[key] ELSE [kind |-> "list", items |-> <<"0">>]

\* Line 78: city_info.get('y', city_info.get('ytop', 64))
height(city_info) ==
    IF "y" \in city_info.keys THEN city_info.y
    ELSE IF "ytop" \in city_info.keys THEN city_info.ytop
    ELSE 64

\* Lines 75-96 for one entry: what the loop body does with it
entry_outcome(city_info) ==
    IF ~({"label", "desc"} \subseteq city_info.keys) THEN "skip"
    ELSE IF ~get_coordinate(coordinate(city_info, "x")).ok THEN "raise"
    ELSE IF ~get_coordinate(coordinate(city_info, "z")).ok THEN "raise"
    ELSE IF parse_city_description(city_info.desc).city_name = <<"spawn">> THEN "spawn"
    ELSE "city"

\* Lines 88-94
city_data(city_info) ==
    [label |-> city_info.label,
     x |-> get_coordinate(coordinate(city_info, "x")).value,
     y |-> height(city_info),
     z |-> get_coordinate(coordinate(city_info, "z")).value]
    @@ parse_city_description(city_info.desc)

Description(name) ==
    [kind |-> "html", span |-> name,
     li |-> <<[text |-> <<"block:", "5", "0">>, ul |-> 1]>>,
     div |-> NoElement, strong |-> <<>>]

CityInfo(keys, label, desc, x, z, y, ytop) ==
    [keys |-> keys, label |-> label, desc |-> desc, x |-> x, z |-> z, y |-> y, ytop |-> ytop]

\* The entries a payload is drawn from
InfoCatalogue ==
    LET zero == [kind |-> "list", items |-> <<"0">>]
    IN  { CityInfo({"label", "desc", "x", "z", "ytop"}, "A", Description(<<"A">>),
                   [kind |-> "list", items |-> <<"7", "9">>],
                   [kind |-> "number", value |-> "3"], 64, 70),
          CityInfo({"label", "desc", "y", "ytop"}, "B", Description(<<"B">>), zero, zero, 80, 70),
          CityInfo({"desc", "x"}, "", Description(<<"A">>),
                   [kind |-> "number", value |-> "5"], zero, 64, 64),
          CityInfo({"label", "x"}, "E", [kind |-> "other"],
                   [kind |-> "number", value |-> "5"], zero, 64, 64),
          CityInfo({"label", "desc"}, "S", Description(<<"spawn">>), zero, zero, 64, 64),
          CityInfo({"label", "desc", "x"}, "C", Description(<<"A">>),
                   [kind |-> "list", items |-> <<"n">>], zero, 64, 64),
          CityInfo({"label", "desc", "x", "z"}, "D", [kind |-> "other"],
                   [kind |-> "text"], [kind |-> "list", items |-> <<>>], 64, 64) }

\* The payloads: up to MaxEntries areas under distinct ids, and at most one
\* marker, under the id of the first area or under an id of its own
Payloads ==
    LET Ids == <<"a", "b", "c", "d">>
        Areas == UNION {[1..n -> InfoCatalogue] : n \in 0..MaxEntries}
        Markers == {<<>>} \cup {<<<<id, info>>>> : id \in {"a", "m"}, info \in InfoCatalogue}
    IN  {[areas |-> [k \in DOMAIN a |-> <<Ids[k], a[k]>>], markers |-> mk] :
            a \in Areas, mk \in Markers}

\* Lines 62-71
Merged == all_city_data(json_data.areas, json_data.markers)

\* Line 58: cities = []
InitExtractor ==
    /\ CycleInit
    /\ ParserIdle
    /\ json_data \in Payloads
    /\ cities_out = <<>>
    /\ epos = 0
    /\ epc = "loop"

\* Line 75: an entry without label or desc
SkipEntry ==
    /\ epc = "loop"
    /\ epos < Len(Merged)
    /\ entry_outcome(Merged[epos + 1][2]) = "skip"
    /\ epos' = epos + 1
    /\ UNCHANGED <<json_data, cities_out, epc, cycleVars, parserVars>>

\* Lines 77-79 raise; line 98 is outside the loop, line 101 returns
CoordinateRaises ==
    /\ epc = "loop"
    /\ epos < Len(Merged)
    /\ entry_outcome(Merged[epos + 1][2]) = "raise"
    /\ epc' = "done"
    /\ UNCHANGED <<json_data, cities_out, epos, cycleVars, parserVars>>

\* Lines 85-86
SkipSpawn ==
    /\ epc = "loop"
    /\ epos < Len(Merged)
    /\ entry_outcome(Merged[epos + 1][2]) = "spawn"
    /\ epos' = epos + 1
    /\ UNCHANGED <<json_data, cities_out, epc, cycleVars, parserVars>>

\* Lines 88-96
AppendCity ==
    /\ epc = "loop"
    /\ epos < Len(Merged)
    /\ entry_outcome(Merged[epos + 1][2]) = "city"
    /\ cities_out' = Append(cities_out, city_data(Merged[epos + 1][2]))
    /\ epos' = epos + 1
    /\ UNCHANGED <<json_data, epc, cycleVars, parserVars>>

\* Line 101 after the last entry
ExtractReturn ==
    /\ epc = "loop"
    /\ epos = Len(Merged)
    /\ epc' = "done"
    /\ UNCHANGED <<json_data, cities_out, epos, cycleVars, parserVars>>

NextExtractor ==
    \/ SkipEntry
    \/ CoordinateRaises
    \/ SkipSpawn
    \/ AppendCity
    \/ ExtractReturn

SpecExtractor == InitExtractor /\ [][NextExtractor]_vars

-----------------------------------------------------------------------------
(* Properties *)

\* The settlements a polity's territory list names that have a row
Named(polity) ==
    {c \in cities : c.city_name \in Range(json_loads(polity.country_territory))}

\* The accounts on the member list of a settlement row
Members(c) == Range(json_loads(c.city_players))

\* The area a territory name stands for: that of its row, 0 without a row
AreaOf(territory) ==
    IF \E c \in cities : c.city_name = territory
    THEN (CHOOSE c \in cities : c.city_name = territory).city_block
    ELSE 0

\* C1: running the statistics pass twice in a row on any persisted state, with no
\* write in between, gives every polity the same territory_count, player_count
\* and total_blocks after the second run as after the first.
C1_PassIdempotent ==
    \A first \in Orderings(countries) :
        LET once == update_country_statistics(countries, first, cities)
        IN  \A second \in Orderings(once) :
                Polities(update_country_statistics(once, second, cities)) = Polities(once)

\* A persisted state the first run changes: the upserts of a cycle have just
\* overwritten the aggregates of a polity whose territory has members.
C1_Witness ==
    /\ pc = "statistics"
    /\ \E first \in Orderings(countries) :
           LET once == update_country_statistics(countries, first, cities)
           IN  /\ Polities(once) # Polities(countries)
               /\ \E p \in once : p.player_count > 0 /\ p.total_blocks > 0

\* C2: when two consecutive cycles both return success and fetched the same
\* accounts and the same settlements, every settlement's persisted fields and
\* every polity's aggregates after the second equal those after the first.
C2_ReingestUnchanged ==
    ( /\ pc = "idle"
      /\ lastResult = "ok"
      /\ prev.result = "ok"
      /\ prev.players = batch.players
      /\ prev.cities = batch.cities )
    => /\ Settlements(cities) = prev.settlements
       /\ Polities(countries) = prev.polities

\* The same payload came twice, the second time later, and a polity has members.
C2_Witness ==
    /\ pc = "idle"
    /\ lastResult = "ok"
    /\ prev.result = "ok"
    /\ prev.players = batch.players
    /\ prev.cities = batch.cities
    /\ \E c \in cities : c.update_time > 0 /\ c.update_time = current_time
    /\ \E p \in countries : p.player_count > 0 /\ p.total_blocks > 0

\* C3: after a statistics pass every polity's player_count is the number of
\* distinct accounts on the member lists of the persisted settlements its
\* territory list names; an account of several of them counts once.
C3_MemberCountIsUnion ==
    pc = "check" =>
        \A p \in countries :
            p.player_count = Cardinality(UNION {Members(c) : c \in Named(p)})

\* A polity with two persisted settlements that share a member: 3, not 4.
C3_Witness ==
    /\ pc = "check"
    /\ \E p \in countries :
        /\ p.player_count = 3
        /\ \E c, d \in Named(p) :
            /\ c # d
            /\ Members(c) \cap Members(d) # {}
            /\ Cardinality(Members(c)) + Cardinality(Members(d)) = 4

\* C4: after a statistics pass every polity's total_blocks is the sum, over the
\* entries of its territory list, of the area of the persisted settlement of that
\* name; a name without a row adds 0 area and no member, and the pass still
\* updates every polity.
C4_TotalAreaIsSum ==
    pc = "check" =>
        /\ stats_done = Cardinality(countries)
        /\ \A p \in countries :
            LET territory_list == json_loads(p.country_territory)
            IN  p.total_blocks =
                    SumSeq([i \in DOMAIN territory_list |-> AreaOf(territory_list[i])])

\* A polity whose territory list names a settlement without a row ahead of one
\* with a row, and whose total is the area of the one persisted.
C4_Witness ==
    /\ pc = "check"
    /\ \E p \in countries :
        LET territory_list == json_loads(p.country_territory)
        IN  /\ Len(territory_list) = 2
            /\ \A c \in cities : c.city_name # territory_list[1]
            /\ \E c \in cities : c.city_name = territory_list[2] /\ p.total_blocks = c.city_block
            /\ p.total_blocks > 0

Affiliated(polity) == {c \in cities : c.city_country = polity.country_name}

RECURSIVE SumBlocks(_)
SumBlocks(S) ==
    IF S = {} THEN 0
    ELSE LET c == CHOOSE d \in S : TRUE IN c.city_block + SumBlocks(S \ {c})

\* C6 as stated: after every statistics pass each polity's player_count and
\* total_blocks equal a recomputation over exactly the persisted settlements
\* whose city_country is the polity's name.
C6_ByAffiliation ==
    pc = "check" =>
        \A p \in countries :
            /\ p.player_count = Cardinality(UNION {Members(c) : c \in Affiliated(p)})
            /\ p.total_blocks = SumBlocks(Affiliated(p))

\* What a recomputation over the persisted territory list of a polity gives
Recomputed(p) ==
    LET territory_list == json_loads(p.country_territory)
    IN  [player_count |-> Cardinality(UNION {Members(c) : c \in Named(p)}),
         total_blocks |-> SumSeq([i \in DOMAIN territory_list |-> AreaOf(territory_list[i])])]

\* C6 as amended: from the end of every statistics pass until the next cycle
\* writes, each polity's player_count and total_blocks equal a recomputation
\* over exactly the persisted settlements its persisted territory list names,
\* whatever their city_country says.
C6_ByTerritoryList ==
    pc \in {"check", "idle", "ready", "off"} =>
        \A p \in countries :
            [player_count |-> p.player_count, total_blocks |-> p.total_blocks] = Recomputed(p)

\* A polity whose affiliated settlements and named settlements differ, and whose
\* aggregates are those of the named ones.
C6_Witness ==
    /\ pc = "idle"
    /\ lastResult = "ok"
    /\ \E p \in countries :
        /\ Affiliated(p) # Named(p)
        /\ p.total_blocks > 0
        /\ p.total_blocks # SumBlocks(Affiliated(p))
        /\ p.player_count # Cardinality(UNION {Members(c) : c \in Affiliated(p)})

\* C7: a cycle whose fetched account list or settlement list is empty returns
\* failure in one step that writes no account, settlement or polity row, and
\* no writing phase is ever entered with an empty list.
C7_EmptyFetchAborts ==
    /\ [](pc \in {"players", "cities", "countries", "statistics", "check"}
            => batch.players # <<>> /\ batch.cities # <<>>)
    /\ [][(cyclesRun' # cyclesRun /\ (batch'.players = <<>> \/ batch'.cities = <<>>))
            => (lastResult' = "fail" /\ pc' = "idle" /\ db' = db)]_vars

\* A cycle fetched accounts but no settlement while polities with aggregates
\* were persisted, and has returned failure.
C7_Witness ==
    /\ pc = "idle"
    /\ lastResult = "fail"
    /\ batch.players # <<>>
    /\ batch.cities = <<>>
    /\ prev.result = "ok"
    /\ \E p \in countries : p.player_count > 0 /\ p.total_blocks > 0
    /\ Polities(countries) = prev.polities

\* The row an upsert of this cycle left for a record, by its key
StoredPlayer(i) ==
    \E r \in players : /\ r.account = batch.players[i].account
                       /\ r.health = batch.players[i].health
                       /\ r.update_time = current_time
StoredCity(i) ==
    \E r \in cities : /\ r.city_name = batch.cities[i].city_name
                      /\ r.city_block = batch.cities[i].city_block
                      /\ r.city_owner = batch.cities[i].city_owner
                      /\ r.city_players = json_dumps(batch.cities[i].city_players)
                      /\ r.update_time = current_time
StoredCountry(i) ==
    \E r \in countries : /\ r.country_name = batch.countries[i].country_name
                         /\ r.country_territory = json_dumps(batch.countries[i].country_territory)
                         /\ r.update_time = current_time

\* C8: an upsert that fails does not end its loop or the cycle: every other
\* account, settlement and polity record of the cycle is upserted, each loop
\* hands over to the next, and the statistics pass is run.
C8_FailureDoesNotAbort ==
    /\ [](/\ pc \in {"cities", "countries", "statistics", "check"}
             => \A i \in DOMAIN batch.players \ faults.players : StoredPlayer(i)
          /\ pc \in {"countries", "statistics", "check"}
             => \A i \in DOMAIN batch.cities \ faults.cities : StoredCity(i)
          /\ pc \in {"statistics", "check"}
             => \A i \in DOMAIN batch.countries \ faults.countries : StoredCountry(i))
    /\ [][/\ pc = "players" => pc' = "cities"
          /\ pc = "cities" => pc' = "countries"
          /\ pc = "countries" => pc' = "statistics"
          /\ pc = "statistics" => pc' = "check"]_vars

\* The upsert of the first of two settlements failed; the second was upserted
\* and the statistics pass went over every polity.
C8_Witness ==
    /\ pc = "check"
    /\ Len(batch.cities) = 2
    /\ faults.cities = {1}
    /\ \A c \in cities : c.city_name # batch.cities[1].city_name
    /\ StoredCity(2)
    /\ countries # {}
    /\ stats_done = Cardinality(countries)
    /\ \E p \in countries : p.player_count > 0

\* C9: once the marker first_run_timestamp has a value, no initialisation of a
\* spider and no cycle changes it.
C9_FirstRunWriteOnce ==
    [][get_system_config(system_config, FirstRunKey) # {}
        => get_system_config(system_config', FirstRunKey)
             = get_system_config(system_config, FirstRunKey)]_vars

\* A spider was initialised again, later than the marker, after cycles had run.
C9_Witness ==
    /\ pc = "ready"
    /\ cyclesRun > 0
    /\ \E v \in get_system_config(system_config, FirstRunKey) : clock > int(v)

\* C10: for an account that is steward of no persisted settlement,
\* get_inactive_players takes the persisted first-run timestamp as the
\* last-activity-time, never the current time.
C10_FallbackIsFirstRun ==
    pc = "check" =>
        \A p \in players :
            (\A c \in cities : c.city_owner # p.account) =>
                /\ get_system_config(system_config, FirstRunKey) # {}
                /\ \A v \in get_system_config(system_config, FirstRunKey) :
                       last_activity_time(p.account, cities, system_config, current_time)
                           = int(v)

\* The accounts with a row that are steward of no persisted settlement
Unsettled == {p \in players : \A c \in cities : c.city_owner # p.account}

\* The calls check_inactive_players makes: get_inactive_players(current_time, d)
Inactive(d) == get_inactive_players(players, cities, system_config, current_time, d)

\* C11 as stated: an account that is steward of no persisted settlement, with
\* first-run timestamp T, is returned by get_inactive_players(now, d) exactly
\* when now - T >= d * 86400, the boundary included.
C11_BoundaryInclusive ==
    pc = "check" =>
        \A p \in Unsettled, d \in {ThresholdLow, ThresholdHigh} :
            \A T \in get_system_config(system_config, FirstRunKey) :
                p \in Inactive(d) <=> current_time - int(T) >= d * 86400

\* C11 as amended: such an account is returned exactly when
\* now - T > d * 86400; at now - T = d * 86400 it is not returned.
C11_BoundaryExclusive ==
    pc = "check" =>
        \A p \in Unsettled, d \in {ThresholdLow, ThresholdHigh} :
            \A T \in get_system_config(system_config, FirstRunKey) :
                p \in Inactive(d) <=> current_time - int(T) > d * 86400

\* An account without settlement is asked about exactly ThresholdLow days after
\* the first run and is not returned; for the same account and instant, a
\* threshold it is past would return it.
C11_Witness ==
    /\ pc = "check"
    /\ \E p \in Unsettled :
        \E T \in get_system_config(system_config, FirstRunKey) :
            /\ current_time - int(T) = ThresholdLow * 86400
            /\ p \notin Inactive(ThresholdLow)
            /\ p \in get_inactive_players(players, cities, system_config, current_time, 1)

\* The update times of the settlements an account is steward of
OwnedTimes(account) == {c.update_time : c \in {d \in cities : d.city_owner = account}}

\* C12: for an account that is steward of at least one persisted settlement,
\* the last-activity-time is the largest update_time of the settlements whose
\* city_owner is the account, and get_inactive_players returns the account
\* exactly when that time is strictly less than now - d * 86400, whatever the
\* update_time of the account's own row.
C12_StewardLastActivity ==
    pc = "check" =>
        \A p \in players \ Unsettled, d \in {ThresholdLow, ThresholdHigh} :
            /\ last_activity_time(p.account, cities, system_config, current_time)
                 \in OwnedTimes(p.account)
            /\ \A u \in OwnedTimes(p.account) :
                 u <= last_activity_time(p.account, cities, system_config, current_time)
            /\ p \in Inactive(d) <=>
                 \A u \in OwnedTimes(p.account) : u < current_time - d * 86400

\* An account whose own row was written in this cycle is returned all the same,
\* because the one settlement it is steward of was last written long before.
C12_Witness ==
    /\ pc = "check"
    /\ \E p \in players \ Unsettled :
        /\ p.update_time = current_time
        /\ p \in Inactive(ThresholdLow)
        /\ \A u \in OwnedTimes(p.account) : u < current_time - ThresholdLow * 86400

\* The owner a description names: the text between the first "owner:" of the
\* first div and the period that follows, without the blanks around it
OwnerToken(desc) ==
    IF desc.kind = "html" /\ desc.div # NoElement /\ contains(desc.div, "owner:")
    THEN LET rest == split_text(desc.div, "owner:")[2]
         IN  strip_text(Head(split_text(rest, ".")))
    ELSE <<>>

\* C13: when the description names an owner, the parsed city_owner is that
\* owner, whatever city_players holds; the first member never replaces it.
C13_ExplicitOwnerKept ==
    (ppc = "done" /\ OwnerToken(desc_html) # <<>>) =>
        result.city_owner = OwnerToken(desc_html)

\* A description naming an owner who is not its first member has been parsed.
C13_Witness ==
    /\ ppc = "done"
    /\ OwnerToken(desc_html) # <<>>
    /\ result.city_players # <<>>
    /\ result.city_players[1] # OwnerToken(desc_html)
    /\ result.city_owner = OwnerToken(desc_html)

\* The li elements that read as a members list
MemberItems(desc) ==
    IF desc.kind = "html"
    THEN {k \in DOMAIN desc.li :
            contains(desc.li[k].text, "players(") /\ contains(desc.li[k].text, "):")}
    ELSE {}

\* C14: when the description names no owner, the parsed city_owner is the first
\* entry of the parsed city_players, or empty when there is none; without a
\* members list item city_players is empty, and so is city_owner.
C14_OwnerFallback ==
    (ppc = "done" /\ OwnerToken(desc_html) = <<>>) =>
        /\ result.city_owner = IF result.city_players # <<>>
                               THEN result.city_players[1] ELSE <<>>
        /\ MemberItems(desc_html) = {} =>
              result.city_players = <<>> /\ result.city_owner = <<>>

\* A description whose div names an owner of blanks only, with two members, has
\* been parsed: the first member is the owner.
C14_Witness ==
    /\ ppc = "done"
    /\ desc_html.kind = "html"
    /\ desc_html.div # NoElement
    /\ contains(desc_html.div, "owner:")
    /\ OwnerToken(desc_html) = <<>>
    /\ Len(result.city_players) = 2
    /\ result.city_owner = result.city_players[1]
    /\ result.city_players[1] # result.city_players[2]

Fields ==
    {"city_name", "city_level", "city_owner", "city_balance", "city_block",
     "city_players", "city_country", "city_country_level", "city_country_capital",
     "city_country_territory"}

\* The fields the statements up to a position have not touched
Untouched(position) ==
    IF position \in {"soup", "name"} THEN Fields
    ELSE IF position = "items"
    THEN {"city_owner", "city_country", "city_country_level", "city_country_capital",
          "city_country_territory"}
    ELSE IF position \in {"fallback", "country"}
    THEN {"city_country", "city_country_level", "city_country_capital",
          "city_country_territory"}
    ELSE {}

\* C15: parse_city_description always returns a record of the ten fields; when
\* a statement raises, what is returned is the record as assembled so far, every
\* field not yet extracted at its declared empty value.
C15_AlwaysTenFields ==
    /\ [](/\ DOMAIN result = Fields
          /\ \A f \in Untouched(ppc) : result[f] = default_result[f]
          /\ result.city_block \in Int
          /\ \A f \in Fields \ {"city_block"} : result[f] \in Seq(Seq(STRING)) \cup Seq(STRING))
    /\ [][(ppc' = "done" /\ ppc \in {"soup", "name", "items", "fallback"})
            => result' = result]_vars

\* An error after the list items and before the owner statements: the area and
\* the members are those extracted, the owner is still empty.
C15_Witness ==
    /\ ppc = "done"
    /\ result.city_block = 50
    /\ result.city_players # <<>>
    /\ result.city_owner = <<>>

\* The li elements that read as an area whose text int() takes
AreaItems(desc) ==
    IF desc.kind = "html"
    THEN {k \in DOMAIN desc.li :
            /\ startswith(strip_text(desc.li[k].text), "block:")
            /\ int_text(replace_text(strip_text(desc.li[k].text), "block:")).ok}
    ELSE {}

\* C16: the parsed city_block is never negative, and it is 0 when no list item
\* gives an area that parses as an integer.
C16_AreaNonNegative ==
    ppc = "done" =>
        /\ result.city_block >= 0
        /\ AreaItems(desc_html) = {} => result.city_block = 0

\* The labels of a sequence of entries or records
Labels(s) == [k \in DOMAIN s |-> s[k].label]

\* The merged entries with a label, a description and a name that is not spawn
Eligible ==
    SelectSeq([k \in DOMAIN Merged |-> Merged[k][2]],
              LAMBDA info : /\ {"label", "desc"} \subseteq info.keys
                            /\ parse_city_description(info.desc).city_name # <<"spawn">>)

\* C17: parse_city_data returns one record for each merged entry that has a
\* label and a description and whose parsed name is not spawn, in their order,
\* and nothing else, whatever the other entries are.
C17_OneRecordPerEntry ==
    epc = "done" => Labels(cities_out) = Labels(Eligible)

\* The polities the settlements of the batch name
BatchPolities == {batch.cities[k].city_country : k \in DOMAIN batch.cities} \ {""}

\* The first settlement of the batch that names the polity
FirstNaming(name) ==
    batch.cities[CHOOSE k \in DOMAIN batch.cities :
                    /\ batch.cities[k].city_country = name
                    /\ \A j \in 1..(k - 1) : batch.cities[j].city_country # name]

\* C18: extract_country_data gives one record for each polity the batch names,
\* with the level, capital and territory list of the first settlement of the
\* batch that names it.
C18_FirstSettlementSeeds ==
    /\ Len(batch.countries) = Cardinality(BatchPolities)
    /\ \A name \in BatchPolities :
          \E k \in DOMAIN batch.countries :
              /\ batch.countries[k].country_name = name
              /\ batch.countries[k].country_level = FirstNaming(name).city_country_level
              /\ batch.countries[k].country_capital = FirstNaming(name).city_country_capital
              /\ batch.countries[k].country_territory = FirstNaming(name).city_country_territory

\* Two settlements of one polity with different level, capital and territory
\* list have been fetched, and the polity has its record.
C18_Witness ==
    /\ Len(batch.cities) = 2
    /\ batch.cities[1].city_country # ""
    /\ batch.cities[1].city_country = batch.cities[2].city_country
    /\ batch.cities[1].city_country_level # batch.cities[2].city_country_level
    /\ batch.cities[1].city_country_capital # batch.cities[2].city_country_capital
    /\ batch.cities[1].city_country_territory # batch.cities[2].city_country_territory
    /\ Len(batch.countries) = 1
    /\ batch.countries[1].country_level = batch.cities[1].city_country_level

\* C19: every record extract_country_data returns has total_blocks = 0 and
\* player_count = 0.
C19_NoAggregatesDerived ==
    \A k \in DOMAIN batch.countries :
        /\ batch.countries[k].total_blocks = 0
        /\ batch.countries[k].player_count = 0

\* C20: the statistics pass starts when the loop over cities and the loop over
\* countries have both ended, every settlement and polity of the batch stored;
\* cities are written in their own loop only, and never during the pass.
C20_PassAfterUpserts ==
    /\ [](pc = "statistics" =>
            /\ \A i \in DOMAIN batch.cities : StoredCity(i)
            /\ \A i \in DOMAIN batch.countries : StoredCountry(i))
    /\ [][/\ (pc' = "statistics" /\ pc # "statistics") => pc = "countries"
          /\ cities' # cities => pc = "cities"
          /\ pc = "statistics" => (cities' = cities /\ pc' = "check")]_vars

\* A pass over two polities has ended after a cycle that stored two settlements.
C20_Witness ==
    /\ pc = "check"
    /\ stats_done = 2
    /\ Len(batch.cities) = 2
    /\ \A i \in DOMAIN batch.cities : StoredCity(i)

\* C22: set_system_config on a key that has a value leaves that value as it is.
C22_SetIsNoOpWhenPresent ==
    [][\A config_key \in ConfigKeys :
          get_system_config(system_config, config_key) # {}
            => get_system_config(system_config', config_key)
                 = get_system_config(system_config, config_key)]_vars

\* The row an upsert of the record at time t leaves
PlayerRow(p, t) ==
    [account |-> p.account, name |-> p.name, world |-> p.world, x |-> p.x, y |-> p.y,
     z |-> p.z, health |-> p.health, armor |-> p.armor, sort |-> p.sort,
     type |-> p.type, update_time |-> t]

CityRow(c, t) ==
    [city_name |-> c.city_name, label |-> c.label, x |-> c.x, y |-> c.y, z |-> c.z,
     city_level |-> c.city_level, city_owner |-> c.city_owner,
     city_balance |-> c.city_balance, city_block |-> c.city_block,
     city_players |-> json_dumps(c.city_players), city_country |-> c.city_country,
     update_time |-> t]

CountryRow(c, t) ==
    [country_name |-> c.country_name, country_level |-> c.country_level,
     country_capital |-> c.country_capital,
     country_territory |-> json_dumps(c.country_territory),
     territory_count |-> c.territory_count, player_count |-> c.player_count,
     total_blocks |-> c.total_blocks, update_time |-> t]

\* The table a loop of upserts leaves: the rows of the records whose upsert
\* succeeded, and the rows of the other keys as they were
Upserted(table, key, rows, succeeded) ==
    {rows[i] : i \in succeeded} \cup
    {r \in table : \A i \in succeeded : rows[i][key] # r[key]}

\* A polity row without the aggregates the statistics pass writes
Upsert(r) ==
    [country_name |-> r.country_name, country_level |-> r.country_level,
     country_capital |-> r.country_capital, country_territory |-> r.country_territory,
     update_time |-> r.update_time]

\* C24: each table holds at most one row per account, settlement name or polity
\* name; a loop of upserts leaves, for every key with a successful upsert, the
\* row of that upsert, and every other row as it was; nothing else writes rows,
\* but for the statistics pass, which writes the aggregates of polities only.
C24_OneRowPerKeyLatestWins ==
    /\ [](/\ \A r, s \in players : r.account = s.account => r = s
          /\ \A r, s \in cities : r.city_name = s.city_name => r = s
          /\ \A r, s \in countries : r.country_name = s.country_name => r = s)
    /\ [][/\ pc = "players" =>
                players' = Upserted(players, "account",
                              [i \in DOMAIN batch.players |-> PlayerRow(batch.players[i], current_time)],
                              DOMAIN batch.players \ faults'.players)
          /\ pc = "cities" =>
                cities' = Upserted(cities, "city_name",
                              [i \in DOMAIN batch.cities |-> CityRow(batch.cities[i], current_time)],
                              DOMAIN batch.cities \ faults'.cities)
          /\ pc = "countries" =>
                countries' = Upserted(countries, "country_name",
                              [i \in DOMAIN batch.countries |-> CountryRow(batch.countries[i], current_time)],
                              DOMAIN batch.countries \ faults'.countries)
          /\ pc # "players" => players' = players
          /\ pc # "cities" => cities' = cities
          /\ pc # "countries" => {Upsert(r) : r \in countries'} = {Upsert(r) : r \in countries}]_vars

\* A second cycle has overwritten a settlement with another area, while the
\* upsert of the other settlement of the payload failed.
C24_Witness ==
    /\ pc = "countries"
    /\ cyclesRun = 2
    /\ Len(batch.cities) = 2
    /\ faults.cities = {2}
    /\ CityRow(batch.cities[1], current_time) \in cities
    /\ \E old \in prev.settlements :
          /\ old.city_name = batch.cities[1].city_name
          /\ old.city_block # batch.cities[1].city_block
    /\ \E r \in cities : /\ r.city_name = batch.cities[2].city_name
                         /\ r.update_time < current_time

\* C25: a settlement fetched with no owner and no members has, once the loop
\* over cities has stored it, the empty string as its persisted city_owner,
\* whatever owner its row had before.
C25_NoStaleSteward ==
    pc \notin {"players", "cities"} =>
        \A i \in DOMAIN batch.cities :
            (batch.cities[i].city_owner = "" /\ batch.cities[i].city_players = <<>>) =>
                \A r \in cities :
                    r.city_name = batch.cities[i].city_name => r.city_owner = ""

\* A settlement that had an owner when the cycle started has none now.
C25_Witness ==
    /\ pc = "idle"
    /\ cyclesRun = 2
    /\ \E i \in DOMAIN batch.cities :
          /\ batch.cities[i].city_owner = ""
          /\ batch.cities[i].city_players = <<>>
          /\ \E old \in prev.settlements : /\ old.city_name = batch.cities[i].city_name
                                           /\ old.city_owner # ""
          /\ \E r \in cities : /\ r.city_name = batch.cities[i].city_name
                               /\ r.city_owner = ""

\* The settlements of the payload of the cycle
Fetched == {batch.cities[i].city_name : i \in DOMAIN batch.cities}

\* C28: no step removes a settlement or a polity; a settlement row changes only
\* when the loop over cities upserts a record of its name; and after the
\* statistics pass the aggregates of every polity count every persisted
\* settlement its territory list names, fetched in this cycle or not.
C28_NothingDeleted ==
    /\ [][/\ {c.city_name : c \in cities} \subseteq {c.city_name : c \in cities'}
          /\ {p.country_name : p \in countries} \subseteq {p.country_name : p \in countries'}
          /\ \A c \in cities : c \in cities' \/ (pc = "cities" /\ c.city_name \in Fetched)]_vars
    /\ [](pc = "check" =>
            \A p \in countries :
                /\ p.total_blocks = Recomputed(p).total_blocks
                /\ p.player_count = Recomputed(p).player_count)

\* After the pass of a second cycle, a polity counts the area of a settlement
\* that only the first cycle fetched.
C28_Witness ==
    /\ pc = "check"
    /\ cyclesRun = 2
    /\ \E p \in countries : \E c \in Named(p), d \in Named(p) :
          /\ c.city_name \notin Fetched
          /\ c.update_time < current_time
          /\ d.city_name \in Fetched
          /\ c.city_block > 0
          /\ p.total_blocks = c.city_block + d.city_block

\* A polity row with its aggregates recomputed from the persisted settlements
Reconciled(r) ==
    [r EXCEPT !.territory_count = Len(json_loads(r.country_territory)),
              !.player_count = Recomputed(r).player_count,
              !.total_blocks = Recomputed(r).total_blocks]

\* C29: the statistics pass always hands over to the inactivity check, whose end
\* is the successful return of process_and_store_data; the pass leaves stats_done
\* polities with recomputed aggregates and every other polity row as it was.
C29_PassErrorContained ==
    [][/\ pc = "statistics" =>
            /\ pc' = "check"
            /\ \E done \in SUBSET countries :
                  /\ Cardinality(done) = stats_done'
                  /\ countries' = {Reconciled(r) : r \in done} \cup (countries \ done)
       /\ pc = "check" => (pc' = "idle" /\ lastResult' = "ok")]_vars

\* A cycle has returned success after a pass that an error ended behind the
\* first of two polities: the other has the territory_count 0 of its upsert.
C29_Witness ==
    /\ pc = "idle"
    /\ lastResult = "ok"
    /\ Cardinality(countries) = 2
    /\ stats_done = 1
    /\ \E r \in countries : r = Reconciled(r) /\ r.territory_count > 0
    /\ \E r \in countries : r.territory_count = 0 /\ r.update_time = current_time

\* The row of an account
RowOf(account) == CHOOSE p \in players : p.account = account

\* C30: an account is in the 41-42 day bulletin only if its last_activity_time
\* is more than 41 days old and its own row is 41 to 42 days old, and in the
\* over-42 day bulletin only if both are 42 days old or more; no account is in
\* both, and no account whose row was written in this cycle is in either.
C30_BulletinNeedsBothStale ==
    (pc = "idle" /\ lastResult = "ok") =>
        /\ \A a \in report.days41 :
              /\ last_activity_time(a, cities, system_config, current_time)
                    < current_time - ThresholdLow * Day
              /\ current_time - RowOf(a).update_time >= ThresholdLow * Day
              /\ current_time - RowOf(a).update_time < ThresholdHigh * Day
        /\ \A a \in report.days42 :
              /\ last_activity_time(a, cities, system_config, current_time)
                    < current_time - ThresholdHigh * Day
              /\ current_time - RowOf(a).update_time >= ThresholdHigh * Day
        /\ report.days41 \cap report.days42 = {}
        /\ \A p \in players :
              p.update_time = current_time => p.account \notin report.days41 \cup report.days42

\* An account whose only settlement is over 42 days old was upserted in this
\* cycle and is in no bulletin, while another account is.
C30_Witness ==
    /\ pc = "idle"
    /\ lastResult = "ok"
    /\ report.days42 # {}
    /\ \E p \in players :
          /\ p.update_time = current_time
          /\ \E c \in cities : c.city_owner = p.account
          /\ last_activity_time(p.account, cities, system_config, current_time)
                < current_time - ThresholdHigh * Day
          /\ p.account \notin report.days41 \cup report.days42

\* The level items of the list ul of the description being parsed
LevelItems(ul) ==
    IF desc_html.kind = "html"
    THEN SelectSeq(desc_html.li,
                   LAMBDA li : li.ul = ul /\ startswith(strip_text(li.text), "level:"))
    ELSE <<>>

\* The value of the last of them
LevelIn(ul) ==
    LET text == LevelItems(ul)[Len(LevelItems(ul))].text
    IN  strip_text(replace_text(strip_text(text), "level:"))

\* The list that follows the polity block, 0 without one
PolityList ==
    IF desc_html.kind = "html" /\ desc_html.strong # <<>> /\ desc_html.strong[1].ul # 0
          /\ contains(desc_html.strong[1].text, "belongs-to-nation")
    THEN desc_html.strong[1].ul
    ELSE 0

\* C26: when the settlement's own list has a level item and the list after the
\* polity block has one too, city_level is the value of the first and
\* city_country_level the value of the second.
C26_TiersKeptApart ==
    (ppc = "done" /\ PolityList # 0 /\ LevelItems(1) # <<>> /\ LevelItems(PolityList) # <<>>) =>
        /\ result.city_level = LevelIn(1)
        /\ result.city_country_level = LevelIn(PolityList)

\* C27: get_country_info of a name that has a polity row returns a record with
\* the territory_count, player_count, total_blocks and territory list of the
\* row; it returns None only for a name without a row.
C27_CountryInfoReturned ==
    [][country_info' # country_info =>
          LET found == {r \in countries : r.country_name = country_info'.country_name}
              returned == country_info'.returned
          IN  IF found = {} THEN returned = None
              ELSE /\ returned # None
                   /\ \E r \in found :
                         /\ returned.territory_count = r.territory_count
                         /\ returned.player_count = r.player_count
                         /\ returned.total_blocks = r.total_blocks
                         /\ returned.territories = json_loads(r.country_territory)]_vars

\* C21: a cycle starts only when no cycle is running: process_and_store_data
\* of the cycle before it has returned, with success or without, or
\* run_continuous has not run a cycle yet; and a cycle is running exactly from
\* its fetch to the return of process_and_store_data.
C21_CyclesDoNotOverlap ==
    /\ [][cyclesRun' # cyclesRun =>
            (pc \in {"ready", "idle"} /\ lastResult # "running")]_vars
    /\ [](lastResult = "running"
            <=> pc \in {"players", "cities", "countries", "statistics", "check"})

\* A second cycle is running after a first that an exception ended.
C21_Witness ==
    /\ cyclesRun = 2
    /\ pc = "players"
    /\ lastResult = "running"
    /\ prev.result = "fail"
    /\ raised = 1
    /\ prev.cities # <<>>

\* C23: when KeyboardInterrupt ends a cycle during the upsert of a settlement or
\* a polity, that upsert is in the store; every row of the table is a row it had
\* or the row of a record of the payload; and the records before it are stored.
C23_WriteInProgressCompletes ==
    [][stop' # stop =>
          /\ stop'.at = "cities" =>
                /\ CityRow(batch.cities[stop'.index], current_time) \in cities'
                /\ \A r \in cities' :
                      r \in cities \/ \E i \in DOMAIN batch.cities :
                                         r = CityRow(batch.cities[i], current_time)
                /\ \A i \in 1..(stop'.index - 1) :
                      CityRow(batch.cities[i], current_time) \in cities'
          /\ stop'.at = "countries" =>
                /\ CountryRow(batch.countries[stop'.index], current_time) \in countries'
                /\ \A r \in countries' :
                      r \in countries \/ \E i \in DOMAIN batch.countries :
                                            r = CountryRow(batch.countries[i], current_time)
                /\ \A i \in 1..(stop'.index - 1) :
                      CountryRow(batch.countries[i], current_time) \in countries'
          /\ stop'.at # "players" => players' = players
          /\ stop'.at # "cities" => cities' = cities]_vars

====
